---------------------------- MODULE Spec2Model ----------------------------
(***************************************************************************)
(* Model of the request routing and admission-control layer of the        *)
(* autonomous agent: RateLimiter (sliding windows + sqlite daily ledger),  *)
(* the three providers (groq, venice, ollama) and ModelRouter.             *)
(* With them: BaseProvider.count_tokens (the estimate without tokenizer),  *)
(* the EventBus of packages/modules/bus.py and the Container of            *)
(* packages/modules/container.py.                                          *)
(*                                                                         *)
(* Units.  Time is in whole seconds.  Money is in units of 10^-8 dollar,   *)
(* so that every per-token price of the source is an integer:              *)
(*   0.00000059 $ = 59, 0.0000004 $ = 40, 0.49 $ = 49000000.               *)
(***************************************************************************)
EXTENDS Integers, Sequences, FiniteSets, TLC

VARIABLES
    now,            \* time.time(), seconds
    today,          \* datetime.now().date(), as a day number
    rpm_windows,    \* RateLimiter.rpm_windows : provider -> [timestamps]
    tpm_windows,    \* RateLimiter.tpm_windows : provider -> [(timestamp, tokens)]
    daily_usage,    \* table daily_usage, keyed (date, provider)
    budget_usage,   \* table budget_usage (spent per date, provider)
    dbLocked,       \* a leaked connection still holds the write transaction
    calls,          \* history: every record_request call made so far
    intended,       \* history: the ledger as the calls made so far should leave it
    ncalls,         \* history: number of calls made since the initial state
    lastOp,         \* history: the last RateLimiter operation and what it returned
    description,    \* the text handed to _classify_task
    category,       \* what _classify_task returned for it ("none" before the call)
    firstCategory,  \* history: what the first call on this text returned
    providers,      \* names p with ModelRouter.providers[p] is not None
    fallback_rules, \* routing_rules[category]["fallback_providers"]
    request_history,\* ModelRouter.request_history
    fallback_counts,\* ModelRouter.fallback_counts
    current_balance,\* VeniceProvider.current_balance (None: NoValue)
    last_balance_check, \* VeniceProvider.last_balance_check (None: NoValue)
    ollamaLive,     \* environment: the Ollama endpoint answers
    pc,             \* where the execute_query call in progress stands
    task,           \* its task_description
    chain,          \* route_task's provider_chain
    idx,            \* position of route_task's walk in the chain
    config,         \* routing_config (NoConfig: not bound)
    mode,           \* "primary": execute_query's own query; "fallback": _attempt_fallback
    qprov,          \* provider whose query is running
    qmax,           \* max_tokens handed to that query
    qmodel,         \* model_type handed to that query
    attempt,        \* attempt number inside the retry decorator
    fbIdx,          \* position of _attempt_fallback's loop in the fallback list
    result,         \* how execute_query ended
    respFrom,       \* provider whose response execute_query returned
    nreq,           \* history: number of execute_query calls started
    walkLog,        \* history: the can_handle answers of this route_task call
    issueLog,       \* history: the remote calls issued by this execute_query call
    liveInQuery,    \* history: Ollama has answered all through this call's queries
    queried,        \* history: providers whose query this call has entered
    utcDay,         \* the UTC calendar day, as a day number
    zone,           \* the host's time zone: "utc", or "west" (behind UTC)
    restarts,       \* history: number of times the process was restarted
    threads,        \* the caller threads inside the RateLimiter
    overcommitted,  \* history: provider whose TPM window two racing callers overfilled
    estimate,       \* what count_tokens returned, in tenths of a token
    handlers,       \* EventBus._handlers : event type -> [handler]
    global_handlers,\* EventBus._global_handlers
    event_history,  \* EventBus._event_history
    pub,            \* the publish call in progress
    lastBus,        \* history: the last subscription operation and what it found
    nbus,           \* history: number of EventBus operations started
    services,       \* Container._services : name -> ServiceDescriptor
    descLock,       \* holder of the ServiceDescriptor's _lock (0: free)
    getters,        \* the Container.get calls in progress, one per thread
    factoryCalls,   \* history: number of times the service's factory ran
    returned,       \* history: what the finished get calls returned
    ngets,          \* history: number of get calls started
    lastAdmit,      \* history: the last can_handle call made on its own
    balanceQueries, \* history: when those calls last asked the balance endpoint
    lastDaily       \* history: the last check_daily_limits call and how it ended

clockVars == <<utcDay, zone>>

threadVars == <<restarts, threads, overcommitted>>

limiterVars == <<now, today, rpm_windows, tpm_windows, daily_usage, budget_usage,
                 dbLocked, calls, intended, ncalls, lastOp, clockVars, threadVars>>

classifyVars == <<description, category, firstCategory>>

providerVars == <<providers, current_balance, last_balance_check, ollamaLive>>

requestVars == <<pc, task, chain, idx, config, mode, qprov, qmax, qmodel, queried, attempt,
                 fbIdx, result, respFrom, nreq, walkLog, issueLog, liveInQuery>>

routerVars == <<fallback_rules, request_history, fallback_counts, providerVars,
               requestVars>>

busVars == <<handlers, global_handlers, event_history, pub, lastBus, nbus>>

containerVars == <<services, descLock, getters, factoryCalls, returned, ngets>>

moreVars == <<containerVars, lastAdmit, balanceQueries, lastDaily>>

extraVars == <<estimate, busVars, moreVars>>

vars == <<limiterVars, classifyVars, routerVars, extraVars>>

-----------------------------------------------------------------------------
(* Bounds of the model *)

MaxTime == 72
MaxDay == 1
MaxCalls == 2

(* Program constants *)

WindowSeconds == 60
RpmBuffer == 3
TpmBuffer == 1000
DefaultRpm == 30
DefaultTpm == 12000
DefaultRpd == 14400

Providers == {"groq", "venice", "ollama"}
Days == 0..MaxDay
NoBudget == -1

-----------------------------------------------------------------------------
(* RateLimiter.default_limits and the .get(..., default) look-ups on it *)

RpmLimit(p) ==
    CASE p = "groq" -> 30
      [] p = "venice" -> 60
      [] p = "ollama" -> 1000
      [] OTHER -> DefaultRpm

TpmLimit(p) ==
    CASE p = "groq" -> 12000
      [] p = "venice" -> 30000
      [] p = "ollama" -> 1000000
      [] OTHER -> DefaultTpm

RpdLimit(p) ==
    CASE p = "groq" -> 14400
      [] OTHER -> DefaultRpd

\* daily_budget; NoBudget stands for float('inf')
DailyBudget(p) ==
    CASE p = "venice" -> 49000000
      [] OTHER -> NoBudget

-----------------------------------------------------------------------------
(* Sliding windows *)

RECURSIVE SumTokens(_)
SumTokens(w) == IF w = <<>> THEN 0 ELSE Head(w)[2] + SumTokens(Tail(w))

WindowStart(t) == t - WindowSeconds

\* Mutant of PruneRpm: nothing is pruned
PruneRpmKeepsAll(w, t) == w

\* [ts for ts in rpm_windows[p] if ts > window_start]
PruneRpm(w, t) == SelectSeq(w, LAMBDA ts : ts > WindowStart(t))

\* Mutant of PruneTpm: nothing is pruned
PruneTpmKeepsAll(w, t) == w

\* [(ts, tokens) for ... if ts > window_start]
PruneTpm(w, t) == SelectSeq(w, LAMBDA e : e[1] > WindowStart(t))

\* check_rpm_limit's answer on the pruned window
RpmOk(w, p) == ~(Len(w) >= RpmLimit(p) - RpmBuffer)

\* Mutant of TpmOk: a request that exactly fills the limit is refused
TpmOkBelowOnly(w, p, est) == SumTokens(w) + est < TpmLimit(p) - TpmBuffer

\* check_tpm_limit's answer on the pruned window
TpmOk(w, p, est) == ~(SumTokens(w) + est > TpmLimit(p) - TpmBuffer)

\* check_daily_limits' answer from the two tables
DailyOk(du, bu, d, p, estCost) ==
    IF du[d][p].request_count >= RpdLimit(p) THEN FALSE
    ELSE IF estCost > 0 /\ DailyBudget(p) # NoBudget
              /\ bu[d][p] + estCost > DailyBudget(p) THEN FALSE
    ELSE TRUE

-----------------------------------------------------------------------------
(* record_request *)

\* The two INSERT ... ON CONFLICT statements and the commit.  With the write
\* lock held elsewhere the first statement raises "database is locked".  With
\* cost > 0 the second statement names ON CONFLICT(date, provider), which is no
\* key of budget_usage (PRIMARY KEY is date alone): sqlite raises, commit() is
\* never reached and the first statement's row is rolled back.
UsageAfterRecord(du, locked, d, p, tokens, cost) ==
    IF locked \/ cost > 0 THEN du
    ELSE [du EXCEPT ![d][p] =
            [request_count |-> @.request_count + 1,
             token_count   |-> @.token_count + tokens,
             cost          |-> @.cost + cost]]

\* The connection of a failed cost > 0 call is never closed: it keeps the write
\* transaction open until the garbage collector finalises it.
LockedAfterRecord(locked, cost) == locked \/ cost > 0

\* rpm_windows[provider].append(now)
RpmAfterRecord(rw, p, t) == [rw EXCEPT ![p] = Append(@, t)]

\* if tokens > 0: tpm_windows[provider].append((now, tokens))
TpmAfterRecord(tw, p, t, tokens) ==
    IF tokens > 0 THEN [tw EXCEPT ![p] = Append(@, <<t, tokens>>)] ELSE tw

\* What the calls made so far should have left in today's row
IntendedAfterRecord(it, d, p, tokens, cost) ==
    [it EXCEPT ![d][p] =
        [request_count |-> @.request_count + 1,
         token_count   |-> @.token_count + tokens,
         cost          |-> @.cost + cost]]

\* The whole of record_request, as a change of the limiter's state; rw and tw
\* are the windows it finds
DoRecordOn(rw, tw, p, tokens, cost) ==
    /\ rpm_windows' = RpmAfterRecord(rw, p, now)
    /\ tpm_windows' = TpmAfterRecord(tw, p, now, tokens)
    /\ daily_usage' = UsageAfterRecord(daily_usage, dbLocked, today, p, tokens, cost)
    /\ budget_usage' = budget_usage
    /\ dbLocked' = LockedAfterRecord(dbLocked, cost)
    /\ calls' = Append(calls, [p |-> p, t |-> now, day |-> today, utc |-> utcDay,
                               tokens |-> tokens, cost |-> cost])
    /\ intended' = IntendedAfterRecord(intended, today, p, tokens, cost)

DoRecord(p, tokens, cost) == DoRecordOn(rpm_windows, tpm_windows, p, tokens, cost)

\* The record_request calls for p whose timestamp lies in the 60 seconds before t
RecentCalls(p, t) ==
    SelectSeq(calls, LAMBDA c : c.p = p /\ c.t > t - WindowSeconds /\ c.t <= t)

RECURSIVE SumCallTokens(_)
SumCallTokens(cs) == IF cs = <<>> THEN 0 ELSE Head(cs).tokens + SumCallTokens(Tail(cs))

-----------------------------------------------------------------------------
(* The RateLimiter's operations as actions *)

otherThanLimiter == <<classifyVars, routerVars, extraVars>>

EstTokenChoices == {500, 6000}
UsageChoices == {<<0, 0>>, <<6000, 0>>, <<6000, 48000000>>}
WindowUsageChoices == {u \in UsageChoices : u[2] = 0}
EstCostChoices == {0, 5000000}
TickSteps == {30, 60}

RecordRequest(p, tokens, cost) ==
    /\ ncalls < MaxCalls
    /\ DoRecord(p, tokens, cost)
    /\ ncalls' = ncalls + 1
    /\ lastOp' = [op |-> "record", p |-> p, t |-> now, day |-> today, arg |-> cost,
                  count |-> 0, res |-> TRUE]
    /\ UNCHANGED <<now, today>>
    /\ UNCHANGED <<clockVars, threadVars>>
    /\ UNCHANGED otherThanLimiter

CheckRpm(p) ==
    /\ rpm_windows' = [rpm_windows EXCEPT ![p] = PruneRpm(@, now)]
    /\ lastOp' = [op |-> "check_rpm", p |-> p, t |-> now, day |-> today, arg |-> 0,
                  count |-> Len(PruneRpm(rpm_windows[p], now)),
                  res |-> RpmOk(PruneRpm(rpm_windows[p], now), p)]
    /\ UNCHANGED <<now, today, tpm_windows, daily_usage, budget_usage, dbLocked,
                   calls, intended, ncalls>>
    /\ UNCHANGED <<clockVars, threadVars>>
    /\ UNCHANGED otherThanLimiter

CheckTpm(p, est) ==
    /\ tpm_windows' = [tpm_windows EXCEPT ![p] = PruneTpm(@, now)]
    /\ lastOp' = [op |-> "check_tpm", p |-> p, t |-> now, day |-> today, arg |-> est,
                  count |-> SumTokens(PruneTpm(tpm_windows[p], now)),
                  res |-> TpmOk(PruneTpm(tpm_windows[p], now), p, est)]
    /\ UNCHANGED <<now, today, rpm_windows, daily_usage, budget_usage, dbLocked,
                   calls, intended, ncalls>>
    /\ UNCHANGED <<clockVars, threadVars>>
    /\ UNCHANGED otherThanLimiter

\* Mutant of CheckDaily: the check books the request it was asked about
CheckDailyReserves(p, estCost) ==
    /\ lastOp' = [op |-> "check_daily", p |-> p, t |-> now, day |-> today,
                  arg |-> estCost, count |-> daily_usage[today][p].request_count,
                  res |-> DailyOk(daily_usage, budget_usage, today, p, estCost)]
    /\ daily_usage' = [daily_usage EXCEPT ![today][p].request_count = @ + 1]
    /\ UNCHANGED <<now, today, rpm_windows, tpm_windows, budget_usage,
                   dbLocked, calls, intended, ncalls>>
    /\ UNCHANGED <<clockVars, threadVars>>
    /\ UNCHANGED otherThanLimiter

CheckDaily(p, estCost) ==
    /\ lastOp' = [op |-> "check_daily", p |-> p, t |-> now, day |-> today,
                  arg |-> estCost, count |-> daily_usage[today][p].request_count,
                  res |-> DailyOk(daily_usage, budget_usage, today, p, estCost)]
    /\ UNCHANGED <<now, today, rpm_windows, tpm_windows, daily_usage, budget_usage,
                   dbLocked, calls, intended, ncalls>>
    /\ UNCHANGED <<clockVars, threadVars>>
    /\ UNCHANGED otherThanLimiter

\* The clock advances
Tick(d) ==
    /\ now + d <= MaxTime
    /\ now' = now + d
    /\ UNCHANGED <<today, rpm_windows, tpm_windows, daily_usage, budget_usage,
                   dbLocked, calls, intended, ncalls, lastOp>>
    /\ UNCHANGED <<clockVars, threadVars>>
    /\ UNCHANGED otherThanLimiter

\* The calendar day of datetime.now().date() changes.  datetime.now() is the
\* host's local time: on a host in UTC the UTC day changes at the same instant,
\* on a host west of UTC the UTC day has changed some hours before.
Midnight ==
    /\ today < MaxDay
    /\ zone = "west" => utcDay = today + 1
    /\ today' = today + 1
    /\ utcDay' = IF zone = "utc" THEN today + 1 ELSE utcDay
    /\ UNCHANGED <<now, rpm_windows, tpm_windows, daily_usage, budget_usage,
                   dbLocked, calls, intended, ncalls, lastOp, zone, threadVars>>
    /\ UNCHANGED otherThanLimiter

\* The UTC day changes while the host's local date stays (host west of UTC)
UtcMidnight ==
    /\ zone = "west"
    /\ utcDay = today
    /\ utcDay < MaxDay
    /\ utcDay' = utcDay + 1
    /\ UNCHANGED <<now, today, rpm_windows, tpm_windows, daily_usage, budget_usage,
                   dbLocked, calls, intended, ncalls, lastOp, zone, threadVars>>
    /\ UNCHANGED otherThanLimiter

\* The garbage collector finalises the leaked connection: its transaction is
\* rolled back and the write lock released.
GcCollect ==
    /\ dbLocked
    /\ dbLocked' = FALSE
    /\ UNCHANGED <<now, today, rpm_windows, tpm_windows, daily_usage, budget_usage,
                   calls, intended, ncalls, lastOp>>
    /\ UNCHANGED <<clockVars, threadVars>>
    /\ UNCHANGED otherThanLimiter

-----------------------------------------------------------------------------
(* Initial states: a fresh limiter, or one that has already served requests   *)
(* (record_request(provider) calls with the default tokens = 0, cost = 0.0    *)
(* made at time 0).                                                           *)

ZeroRow == [request_count |-> 0, token_count |-> 0, cost |-> 0]

WarmCall(wp) == [p |-> wp, t |-> 0, day |-> 0, utc |-> 0, tokens |-> 0, cost |-> 0]

ThreadIds == {1, 2}

IdleThread == [pc |-> "idle", kind |-> "none", p |-> "none", est |-> 0, t |-> 0,
               raced |-> FALSE, pending |-> <<>>]

InitLimiterIn(wp, fill, rc, z) ==
    /\ now = 0
    /\ today = 0
    /\ utcDay = 0
    /\ zone = z
    /\ restarts = 0
    /\ threads = [i \in ThreadIds |-> IdleThread]
    /\ overcommitted = "none"
    /\ rpm_windows = [p \in Providers |->
                        IF p = wp THEN [i \in 1..fill |-> 0] ELSE <<>>]
    /\ tpm_windows = [p \in Providers |-> <<>>]
    /\ daily_usage = [d \in Days |-> [p \in Providers |->
                        IF d = 0 /\ p = wp
                        THEN [ZeroRow EXCEPT !.request_count = rc] ELSE ZeroRow]]
    /\ budget_usage = [d \in Days |-> [p \in Providers |-> 0]]
    /\ dbLocked = FALSE
    /\ calls = [i \in 1..fill |-> WarmCall(wp)]
    /\ intended = daily_usage
    /\ ncalls = 0
    /\ lastOp = [op |-> "none", p |-> "groq", t |-> 0, day |-> 0, arg |-> 0,
                 count |-> 0, res |-> TRUE]

InitLimiterWith(wp, fill, rc) == InitLimiterIn(wp, fill, rc, "utc")

InitClassifyIdle ==
    /\ description = <<>>
    /\ category = "none"
    /\ firstCategory = "none"

-----------------------------------------------------------------------------
(* A process restart: a new RateLimiter is constructed on the same database *)

MaxRestarts == 1

\* Mutant of LedgerAfterRestart: the tables are created anew
LedgerRecreated(du) == [d \in Days |-> [p \in Providers |-> ZeroRow]]

\* _init_database: CREATE TABLE IF NOT EXISTS leaves the rows of an existing
\* table as they are
LedgerAfterRestart(du) == du

\* __init__ of the new process: empty windows over the old database file.  The
\* connections of the old process are gone and their open transactions with
\* them.
Restart ==
    /\ restarts < MaxRestarts
    /\ restarts' = restarts + 1
    /\ rpm_windows' = [p \in Providers |-> <<>>]
    /\ tpm_windows' = [p \in Providers |-> <<>>]
    /\ daily_usage' = LedgerAfterRestart(daily_usage)
    /\ dbLocked' = FALSE
    /\ threads' = [i \in ThreadIds |-> IdleThread]
    /\ lastOp' = [op |-> "restart", p |-> "groq", t |-> now, day |-> today, arg |-> 0,
                  count |-> 0, res |-> TRUE]
    /\ UNCHANGED <<now, today, budget_usage, calls, intended, ncalls, clockVars,
                   overcommitted>>
    /\ UNCHANGED otherThanLimiter

-----------------------------------------------------------------------------
(* Concurrent callers.  The RateLimiter holds no lock: a thread can be        *)
(* suspended inside check_rpm_limit or check_tpm_limit between the list       *)
(* comprehension that builds the pruned list and the assignment that stores   *)
(* it, and other threads run in between.                                      *)

\* the provider the two threads call, and the checks they make: (kind of
\* check, tokens of the request)
ThreadProviders == {"groq"}
ThreadChecks == {<<"rpm", 500>>, <<"tpm", 500>>, <<"tpm", 6000>>}

\* check_*_limit up to the end of the list comprehension: time.time() is read
\* and the pruned list is built from the window as it is now
BeginCheck(i, kind, p, est) ==
    /\ threads[i].pc = "idle"
    /\ threads' = [threads EXCEPT ![i] =
            [pc |-> "pruned", kind |-> kind, p |-> p, est |-> est, t |-> now,
             raced |-> FALSE,
             pending |-> IF kind = "rpm"
                         THEN [k \in 1..Len(PruneRpm(rpm_windows[p], now)) |->
                                  <<PruneRpm(rpm_windows[p], now)[k], 0>>]
                         ELSE PruneTpm(tpm_windows[p], now)]]
    /\ UNCHANGED <<now, today, rpm_windows, tpm_windows, daily_usage, budget_usage,
                   dbLocked, calls, intended, ncalls, lastOp, clockVars, restarts,
                   overcommitted>>
    /\ UNCHANGED otherThanLimiter

\* the rest of check_*_limit: the pruned list replaces the window, whatever
\* was appended to the window meanwhile, and the answer is computed from it
EndCheck(i) ==
    /\ threads[i].pc = "pruned"
    /\ LET th == threads[i]
           answer == IF th.kind = "rpm" THEN RpmOk(th.pending, th.p)
                     ELSE TpmOk(th.pending, th.p, th.est)
       IN  /\ IF th.kind = "rpm"
              THEN /\ rpm_windows' = [rpm_windows EXCEPT ![th.p] =
                            [k \in 1..Len(th.pending) |-> th.pending[k][1]]]
                   /\ UNCHANGED tpm_windows
              ELSE /\ tpm_windows' = [tpm_windows EXCEPT ![th.p] = th.pending]
                   /\ UNCHANGED rpm_windows
           /\ lastOp' = [op |-> IF th.kind = "rpm" THEN "check_rpm" ELSE "check_tpm",
                         p |-> th.p, t |-> th.t, day |-> today,
                         arg |-> IF th.kind = "rpm" THEN 0 ELSE th.est,
                         count |-> IF th.kind = "rpm" THEN Len(th.pending)
                                   ELSE SumTokens(th.pending),
                         res |-> answer]
           /\ threads' = [threads EXCEPT ![i] =
                    IF answer THEN [th EXCEPT !.pc = "passed", !.pending = <<>>]
                    ELSE IdleThread]
    /\ UNCHANGED <<now, today, daily_usage, budget_usage, dbLocked, calls, intended,
                   ncalls, clockVars, restarts, overcommitted>>
    /\ UNCHANGED otherThanLimiter

\* another caller of the same provider has passed its TPM check and not yet
\* recorded
RacingWith(i) ==
    {j \in ThreadIds \ {i} : /\ threads[j].pc = "passed"
                             /\ threads[j].kind = "tpm"
                             /\ threads[j].p = threads[i].p}

\* a caller whose check passed has made its request and calls record_request
ThreadRecord(i) ==
    /\ threads[i].pc = "passed"
    /\ ncalls < MaxCalls
    /\ DoRecord(threads[i].p, threads[i].est, 0)
    /\ ncalls' = ncalls + 1
    /\ lastOp' = [op |-> "record", p |-> threads[i].p, t |-> now, day |-> today,
                  arg |-> 0, count |-> 0, res |-> TRUE]
    /\ threads' = [j \in ThreadIds |->
            IF j = i THEN IdleThread
            ELSE IF threads[i].kind = "tpm" /\ j \in RacingWith(i)
                 THEN [threads[j] EXCEPT !.raced = TRUE]
                 ELSE threads[j]]
    /\ overcommitted' =
            IF /\ threads[i].kind = "tpm"
               /\ threads[i].raced
               /\ SumTokens(tpm_windows'[threads[i].p])
                    > TpmLimit(threads[i].p) - TpmBuffer
            THEN threads[i].p ELSE overcommitted
    /\ UNCHANGED <<now, today, clockVars, restarts>>
    /\ UNCHANGED otherThanLimiter

-----------------------------------------------------------------------------
(* ModelRouter._classify_task.  A description is a sequence of characters. *)

UpperCase == <<"A", "B", "C", "D", "E", "F", "G", "H", "I", "J", "K", "L", "M",
               "N", "O", "P", "Q", "R", "S", "T", "U", "V", "W", "X", "Y", "Z">>
LowerCase == <<"a", "b", "c", "d", "e", "f", "g", "h", "i", "j", "k", "l", "m",
               "n", "o", "p", "q", "r", "s", "t", "u", "v", "w", "x", "y", "z">>

\* str.lower() on one character
LowerChar(c) ==
    IF \E i \in 1..Len(UpperCase) : UpperCase[i] = c
    THEN LowerCase[CHOOSE i \in 1..Len(UpperCase) : UpperCase[i] = c]
    ELSE c

\* task_description.lower()
LowerStr(s) == [i \in 1..Len(s) |-> LowerChar(s[i])]

\* keyword in task_lower
Contains(s, k) ==
    \E i \in 0..(Len(s) - Len(k)) : SubSeq(s, i + 1, i + Len(k)) = k

\* any(keyword in task_lower for keyword in [...])
AnyKeyword(s, ks) == \E k \in ks : Contains(s, k)

SelfReflectionKeywords == {
    <<"s", "e", "l", "f", " ", "r", "e", "f", "l", "e", "c", "t", "i", "o", "n">>,
    <<"a", "n", "a", "l", "y", "z", "e", " ", "p", "e", "r", "f", "o", "r", "m", "a", "n", "c", "e">>,
    <<"i", "n", "t", "e", "r", "n", "a", "l", " ", "a", "n", "a", "l", "y", "s", "i", "s">>,
    <<"p", "e", "r", "f", "o", "r", "m", "a", "n", "c", "e", " ", "r", "e", "v", "i", "e", "w">>,
    <<"s", "e", "l", "f", " ", "a", "s", "s", "e", "s", "s", "m", "e", "n", "t">>}

CriticalAnalysisKeywords == {
    <<"c", "r", "i", "t", "i", "c", "a", "l", " ", "a", "n", "a", "l", "y", "s", "i", "s">>,
    <<"s", "t", "r", "u", "c", "t", "u", "r", "e", "d", " ", "a", "r", "g", "u", "m", "e", "n", "t">>,
    <<"s", "t", "r", "a", "t", "e", "g", "i", "c", " ", "d", "e", "c", "i", "s", "i", "o", "n">>,
    <<"p", "a", "r", "t", "n", "e", "r", "s", "h", "i", "p">>,
    <<"h", "i", "g", "h", " ", "s", "t", "a", "k", "e", "s">>,
    <<"i", "m", "p", "o", "r", "t", "a", "n", "t", " ", "a", "n", "a", "l", "y", "s", "i", "s">>}

CodeGenerationKeywords == {
    <<"w", "r", "i", "t", "e", " ", "c", "o", "d", "e">>,
    <<"g", "e", "n", "e", "r", "a", "t", "e", " ", "s", "c", "r", "i", "p", "t">>,
    <<"c", "r", "e", "a", "t", "e", " ", "f", "u", "n", "c", "t", "i", "o", "n">>,
    <<"i", "m", "p", "l", "e", "m", "e", "n", "t">>,
    <<"p", "r", "o", "g", "r", "a", "m">>,
    <<"c", "o", "d", "e">>,
    <<"s", "c", "r", "i", "p", "t">>,
    <<"m", "o", "d", "u", "l", "e">>,
    <<"c", "l", "a", "s", "s">>}

DocumentationKeywords == {
    <<"e", "x", "p", "l", "a", "i", "n">>,
    <<"d", "o", "c", "u", "m", "e", "n", "t">>,
    <<"s", "u", "m", "m", "a", "r", "y">>,
    <<"s", "u", "m", "m", "a", "r", "i", "z", "e">>,
    <<"d", "o", "c", "u", "m", "e", "n", "t", "a", "t", "i", "o", "n">>,
    <<"r", "e", "a", "d", "m", "e">>,
    <<"g", "u", "i", "d", "e">>,
    <<"t", "u", "t", "o", "r", "i", "a", "l">>}

QuickAnswerKeywords == {
    <<"q", "u", "i", "c", "k">>,
    <<"s", "i", "m", "p", "l", "e">>,
    <<"l", "o", "o", "k", "u", "p">>,
    <<"c", "h", "e", "c", "k">>,
    <<"v", "e", "r", "i", "f", "y">>,
    <<"w", "h", "a", "t", " ", "i", "s">>,
    <<"h", "o", "w", " ", "t", "o">>,
    <<"t", "e", "l", "l", " ", "m", "e">>}

\* Mutant of classify_task: the description is matched without lower-casing
ClassifyTaskCaseSensitive(task_description) ==
    IF AnyKeyword(task_description, SelfReflectionKeywords) THEN "self_reflection"
    ELSE IF AnyKeyword(task_description, CriticalAnalysisKeywords) THEN "critical_analysis"
    ELSE IF AnyKeyword(task_description, CodeGenerationKeywords) THEN "code_generation"
    ELSE IF AnyKeyword(task_description, DocumentationKeywords) THEN "documentation"
    ELSE IF AnyKeyword(task_description, QuickAnswerKeywords) THEN "quick_answer"
    ELSE "reasoning"

ClassifyTask(task_description) ==
    LET task_lower == LowerStr(task_description) IN
    IF AnyKeyword(task_lower, SelfReflectionKeywords) THEN "self_reflection"
    ELSE IF AnyKeyword(task_lower, CriticalAnalysisKeywords) THEN "critical_analysis"
    ELSE IF AnyKeyword(task_lower, CodeGenerationKeywords) THEN "code_generation"
    ELSE IF AnyKeyword(task_lower, DocumentationKeywords) THEN "documentation"
    ELSE IF AnyKeyword(task_lower, QuickAnswerKeywords) THEN "quick_answer"
    ELSE "reasoning"

Categories == {"self_reflection", "critical_analysis", "code_generation",
               "reasoning", "documentation", "quick_answer"}

\* Pieces the descriptions of the classifier's specification are built from
Fragments == {
    <<"S", "e", "l", "f", " ", "R", "e", "f", "l", "e", "c", "t", "i", "o", "n">>,
    <<"P", "A", "R", "T", "N", "E", "R", "S", "H", "I", "P">>,
    <<"h", "i", "g", "h", " ", "s", "t", "a", "k", "e", "s">>,
    <<"W", "r", "i", "t", "e", " ", "C", "o", "d", "e">>,
    <<"c", "o", "d", "e">>,
    <<"C", "L", "A", "S", "S">>,
    <<"E", "x", "p", "l", "a", "i", "n">>,
    <<"s", "u", "m", "m", "a", "r", "y", " ">>,
    <<"Q", "u", "i", "c", "k">>,
    <<"w", "h", "a", "t", " ", "i", "s">>,
    <<"t", "e", "l", "l", " ", "m", "e">>,
    <<" ", "t", "h", "e", " ">>,
    <<"p", "l", "a", "n">>,
    <<"C", "o", "d">>,
    <<"e">>,
    <<"R", "e", "a", "d", "M", "e">>,
    <<"P", "e", "r", "f", "o", "r", "m", "a", "n", "c", "e", " ", "R", "e", "v", "i", "e", "w">>}

MaxDescriptionLen == 14

\* a caller composes a task description
AppendFragment(f) ==
    /\ category = "none"
    /\ Len(description) + Len(f) <= MaxDescriptionLen
    /\ description' = description \o f
    /\ UNCHANGED <<limiterVars, routerVars, extraVars, category, firstCategory>>

\* _classify_task(description) is called and returns
Classify ==
    /\ category' = ClassifyTask(description)
    /\ firstCategory' = IF firstCategory = "none" THEN ClassifyTask(description)
                        ELSE firstCategory
    /\ UNCHANGED <<limiterVars, routerVars, extraVars, description>>

\* the caller turns to its next task
NewDescription ==
    /\ category # "none"
    /\ description' = <<>>
    /\ category' = "none"
    /\ firstCategory' = "none"
    /\ UNCHANGED <<limiterVars, routerVars, extraVars>>

-----------------------------------------------------------------------------
(* The providers: what each one's can_handle and query do *)

NoValue == -1
FetchFailed == -2

ResponseReserve == 1000
GroqReasoningContext == 128000
GroqToolingContext == 8192
GroqReasoningCost == 59
GroqToolingCost == 19
GroqReasoningTpm == 12000
GroqToolingTpm == 20000
GroqSafetyMargin == 100
MinMaxTokens == 100
VeniceContext == 128000
VeniceInputCost == 40
VeniceOutputCost == 100
VeniceEstimateMaxTokens == 4000
BalanceCacheSeconds == 300
OllamaContext == 32000
RetryAttempts == 3
BackoffMin == 2
BackoffMax == 10

Min(a, b) == IF a < b THEN a ELSE b
Max(a, b) == IF a > b THEN a ELSE b

\* provider.count_tokens(prompt): groq and venice count with their tokenizer,
\* ollama with its words * 1.3 heuristic
CountTokens(p, t) == IF p = "ollama" THEN t.ltok ELSE t.tok

\* self.models.get(model_type, self.models["reasoning"])["max_context"]
GroqMaxContext(model_type) ==
    IF model_type = "tooling" THEN GroqToolingContext ELSE GroqReasoningContext

\* ...["cost_per_token"]
GroqCostPerToken(model_type) ==
    IF model_type = "tooling" THEN GroqToolingCost ELSE GroqReasoningCost

\* GroqProvider.can_handle: the answer and the windows as the checks leave them
GroqCanHandle(rw, tw, du, bu, d, t, prompt_tokens, model_type) ==
    LET rw1 == [rw EXCEPT !["groq"] = PruneRpm(@, t)]
        tw1 == [tw EXCEPT !["groq"] = PruneTpm(@, t)]
    IN  IF prompt_tokens > GroqMaxContext(model_type) - ResponseReserve
        THEN [ok |-> FALSE, rpm |-> rw, tpm |-> tw]
        ELSE IF ~RpmOk(rw1["groq"], "groq")
        THEN [ok |-> FALSE, rpm |-> rw1, tpm |-> tw]
        ELSE IF ~TpmOk(tw1["groq"], "groq", prompt_tokens + ResponseReserve)
        THEN [ok |-> FALSE, rpm |-> rw1, tpm |-> tw1]
        ELSE [ok |-> DailyOk(du, bu, d, "groq", 0), rpm |-> rw1, tpm |-> tw1]

\* VeniceProvider.estimate_cost(prompt, max_tokens)
VeniceEstimateCost(prompt_tokens, max_tokens) ==
    prompt_tokens * VeniceInputCost + max_tokens * VeniceOutputCost

\* Mutant of CheckBalance: a balance query that fails counts as enough
CheckBalanceTrusting(bal, last, t, estimated_cost, fetched) ==
    IF last # NoValue /\ t - last < BalanceCacheSeconds
    THEN [ok |-> bal # NoValue /\ bal >= estimated_cost, bal |-> bal, last |-> last,
          asked |-> FALSE]
    ELSE IF fetched = FetchFailed
    THEN [ok |-> TRUE, bal |-> bal, last |-> last, asked |-> TRUE]
    ELSE [ok |-> fetched >= estimated_cost, bal |-> fetched, last |-> t,
          asked |-> TRUE]

\* VeniceProvider._check_balance; fetched is what the balance endpoint would
\* answer now (FetchFailed: the request fails); asked: requests.get was called
CheckBalance(bal, last, t, estimated_cost, fetched) ==
    IF last # NoValue /\ t - last < BalanceCacheSeconds
    THEN [ok |-> bal # NoValue /\ bal >= estimated_cost, bal |-> bal, last |-> last,
          asked |-> FALSE]
    ELSE IF fetched = FetchFailed
    THEN [ok |-> FALSE, bal |-> bal, last |-> last, asked |-> TRUE]
    ELSE [ok |-> fetched >= estimated_cost, bal |-> fetched, last |-> t,
          asked |-> TRUE]

\* VeniceProvider.can_handle
VeniceCanHandle(rw, du, bu, d, t, bal, last, prompt_tokens, fetched) ==
    LET rw1 == [rw EXCEPT !["venice"] = PruneRpm(@, t)]
        est == VeniceEstimateCost(prompt_tokens, VeniceEstimateMaxTokens)
        cb  == CheckBalance(bal, last, t, est, fetched)
    IN  IF prompt_tokens > VeniceContext - ResponseReserve
        THEN [ok |-> FALSE, rpm |-> rw, bal |-> bal, last |-> last, asked |-> FALSE]
        ELSE IF ~RpmOk(rw1["venice"], "venice")
        THEN [ok |-> FALSE, rpm |-> rw1, bal |-> bal, last |-> last, asked |-> FALSE]
        ELSE IF ~DailyOk(du, bu, d, "venice", est)
        THEN [ok |-> FALSE, rpm |-> rw1, bal |-> bal, last |-> last, asked |-> FALSE]
        ELSE [ok |-> cb.ok, rpm |-> rw1, bal |-> cb.bal, last |-> cb.last,
              asked |-> cb.asked]

\* OllamaProvider.can_handle: prompt size, then _check_health
OllamaCanHandle(prompt_tokens, live) ==
    IF prompt_tokens > OllamaContext THEN FALSE ELSE live

\* GroqProvider.get_available_tokens
GroqAvailableTokens(tw, t) ==
    Max(0, DefaultTpm - SumTokens(SelectSeq(tw["groq"], LAMBDA e : e[1] > WindowStart(t))))

\* safe_max_tokens in GroqProvider.query
GroqSafeMaxTokens(tw, t, prompt_tokens, max_tokens) ==
    Min(max_tokens, GroqAvailableTokens(tw, t) - prompt_tokens - GroqSafetyMargin)

\* wait_exponential(multiplier=1, min=2, max=10) after the given attempt
RECURSIVE Pow2(_)
Pow2(n) == IF n = 0 THEN 1 ELSE 2 * Pow2(n - 1)

BackoffSeconds(n) == Max(BackoffMin, Min(Pow2(n - 1), BackoffMax))

\* Mutant of RetriesLeft: the first failure is final
NoRetries(n) == FALSE

\* stop_after_attempt(3): after attempt n has raised there is another attempt
RetriesLeft(n) == n < RetryAttempts

-----------------------------------------------------------------------------
(* ModelRouter: configuration and routing rules *)

MaxPromptTokens == 8000
VeniceBudgetThreshold == 10000000
MaxTokensCap == 4000
ReducedMaxTokens == 2000

\* the keys of self.providers, in insertion order
ProviderOrder == <<"groq", "venice", "ollama">>

PreferredProvider(c) ==
    CASE c = "self_reflection" -> "ollama"
      [] c = "critical_analysis" -> "venice"
      [] OTHER -> "groq"

InitialFallbacks(c) ==
    CASE c = "self_reflection" -> <<>>
      [] c = "critical_analysis" -> <<"groq">>
      [] c = "code_generation" -> <<"venice">>
      [] c = "reasoning" -> <<"venice", "ollama">>
      [] c = "documentation" -> <<"venice">>
      [] c = "quick_answer" -> <<"ollama">>

RuleMaxTokens(c) ==
    CASE c = "self_reflection" -> 2000
      [] c = "critical_analysis" -> 4000
      [] c = "code_generation" -> 3000
      [] c = "reasoning" -> 4000
      [] c = "documentation" -> 2000
      [] c = "quick_answer" -> 1000

\* rules.get("model_type", "reasoning")
RuleModelType(c) ==
    IF c = "code_generation" THEN "tooling" ELSE "reasoning"

\* model_config["max_context"] of the provider's largest model; Ollama: the
\* prompt size its can_handle accepts
ContextWindow(p) ==
    CASE p = "groq" -> Max(GroqReasoningContext, GroqToolingContext)
      [] p = "venice" -> VeniceContext
      [] p = "ollama" -> OllamaContext

\* _estimate_token_count: the first registered provider counts
FirstRegistered(ps) ==
    ProviderOrder[CHOOSE i \in 1..Len(ProviderOrder) :
        /\ ProviderOrder[i] \in ps
        /\ \A j \in 1..(i - 1) : ProviderOrder[j] \notin ps]

EstimateTokenCount(ps, t) == CountTokens(FirstRegistered(ps), t)

InSeq(x, s) == \E i \in 1..Len(s) : s[i] = x

\* "if p in self.providers and self.providers[p] and p not in provider_chain:
\*  provider_chain.append(p)" over a list of names
RECURSIVE AppendRegistered(_, _, _)
AppendRegistered(ch, names, ps) ==
    IF names = <<>> THEN ch
    ELSE AppendRegistered(
            IF Head(names) \in ps /\ ~InSeq(Head(names), ch)
            THEN Append(ch, Head(names)) ELSE ch,
            Tail(names), ps)

\* the preferred provider of route_task after the large-prompt override
PreferredFor(c, estimated_tokens) ==
    IF estimated_tokens > MaxPromptTokens THEN "venice" ELSE PreferredProvider(c)

\* Mutant of ProviderChain: the providers no rule names are left out
ProviderChainNamedOnly(preferred, fallbacks, ps) ==
    AppendRegistered(IF preferred \in ps THEN <<preferred>> ELSE <<>>,
                     fallbacks, ps)

\* provider_chain of route_task
ProviderChain(preferred, fallbacks, ps) ==
    AppendRegistered(
        AppendRegistered(IF preferred \in ps THEN <<preferred>> ELSE <<>>,
                         fallbacks, ps),
        ProviderOrder, ps)

\* Mutant of RemoveFirst: the failed provider stays in the list
RemoveFirstKeeps(s, x) == s

\* fallback_providers.remove(failed_provider), when it is in the list
RemoveFirst(s, x) ==
    IF ~InSeq(x, s) THEN s
    ELSE LET i == CHOOSE k \in 1..Len(s) :
                    s[k] = x /\ \A j \in 1..(k - 1) : s[j] # x
         IN  SubSeq(s, 1, i - 1) \o SubSeq(s, i + 1, Len(s))

\* the next position at or after i of the fallback loop that holds a
\* registered provider (Len + 1: the loop is over)
NextFallback(list, i, ps) ==
    IF \E j \in i..Len(list) : list[j] \in ps
    THEN CHOOSE j \in i..Len(list) :
            list[j] \in ps /\ \A k \in i..(j - 1) : list[k] \notin ps
    ELSE Len(list) + 1

\* Mutant of FallbackMaxTokens: the fallback keeps the failed decision's value
FallbackMaxTokensKept(max_tokens) == max_tokens

\* max_tokens of a fallback query: min(failed_config.get("max_tokens", 4000), 2000)
FallbackMaxTokens(max_tokens) == Min(max_tokens, ReducedMaxTokens)

NoConfig == [provider |-> "none", task_category |-> "none", estimated_tokens |-> 0,
             max_tokens |-> 0, model_type |-> "none", forced |-> FALSE]

\* max_tokens of route_task: min(rules["max_tokens"], 4000)
RouteMaxTokens(c) == Min(RuleMaxTokens(c), MaxTokensCap)

VeniceLowBalanceIgnored(p, bal) == FALSE

\* Mutant of VeniceLowBalance: only an empty balance counts as low
VeniceLowBalanceEmptyOnly(p, bal) == p = "venice" /\ bal = 0

\* route_task passes over a willing Venice whose known balance is below
\* venice_budget_threshold
VeniceLowBalance(p, bal) ==
    p = "venice" /\ bal # NoValue /\ bal < VeniceBudgetThreshold

LastResortNone(ps) == "none"

\* the provider route_task forces when the walk selected nobody
\* ("none": it raises RuntimeError)
LastResortProvider(ps) == IF "ollama" \in ps THEN "ollama" ELSE "none"

-----------------------------------------------------------------------------
(* BaseProvider.count_tokens: the estimate of a provider that has no        *)
(* tokenizer, and of _estimate_token_count when no provider counts.  The    *)
(* result is a float; it is kept here in tenths of a token.                 *)

NoEstimate == -1
HeuristicFactor == 13
MaxTextLen == 7

Whitespace == {" ", "\t", "\n"}

\* len(text.split()): the words are the maximal runs of non-whitespace
\* characters
WordCount(text) ==
    Cardinality({i \in 1..Len(text) :
                    /\ text[i] \notin Whitespace
                    /\ (i = 1 \/ text[i - 1] \in Whitespace)})

\* len(text.split()) * 1.3, in tenths of a token
BaseCountTokens(text) == WordCount(text) * HeuristicFactor

\* Pieces the prompts of the estimate's specification are built from
TextPieces == {<<"a">>, <<"b", "c">>, <<" ">>, <<"\n">>, <<"\t", "d">>}

\* a caller composes a prompt
AppendText(f) ==
    /\ estimate = NoEstimate
    /\ Len(description) + Len(f) <= MaxTextLen
    /\ description' = description \o f
    /\ UNCHANGED <<limiterVars, routerVars, busVars, moreVars, category,
                   firstCategory, estimate>>

\* count_tokens(prompt) is called on a provider without tokenizer and returns
EstimateTokens ==
    /\ estimate' = BaseCountTokens(description)
    /\ UNCHANGED <<limiterVars, classifyVars, routerVars, busVars, moreVars>>

\* the caller turns to its next prompt
NewText ==
    /\ estimate # NoEstimate
    /\ description' = <<>>
    /\ estimate' = NoEstimate
    /\ UNCHANGED <<limiterVars, routerVars, busVars, moreVars, category,
                   firstCategory>>

-----------------------------------------------------------------------------
(* EventBus.  A handler is a callable; what matters of it here is whether it *)
(* raises when called and whether it has a __name__ attribute (functions and *)
(* bound methods have one, functools.partial objects and instances with      *)
(* __call__ have none).                                                      *)

MaxBusOps == 4
MaxHistory == 1000

EventTypes == {"system_startup", "system_shutdown"}

Handlers == {"test_handler", "failing_handler", "partial_handler"}

Raises(h) == h \in {"failing_handler", "partial_handler"}

HasName(h) == h # "partial_handler"

NoEvent == [type |-> "none", seq |-> 0]

IdlePublish == [pc |-> "idle", event |-> NoEvent, subscribed |-> <<>>,
                globals |-> <<>>, i |-> 0, delivered |-> <<>>, outcome |-> "none"]

\* if handler not in list: list.append(handler)
AppendIfAbsent(s, h) == IF InSeq(h, s) THEN s ELSE Append(s, h)

\* get_handler_count(): sum(len(handlers) for handlers in _handlers.values())
RECURSIVE SumLens(_, _)
SumLens(hs, ts) ==
    IF ts = {} THEN 0
    ELSE LET t == CHOOSE x \in ts : TRUE
         IN  Len(hs[t]) + SumLens(hs, ts \ {t})

GetHandlerCount(hs) == SumLens(hs, DOMAIN hs)

\* the event types whose list holds h
TypesOf(hs, h) == {t \in DOMAIN hs : InSeq(h, hs[t])}

BusOp(op, h) ==
    /\ nbus < MaxBusOps
    /\ nbus' = nbus + 1
    /\ lastBus' = [op |-> op, h |-> h, count |-> GetHandlerCount(handlers),
                   held |-> Cardinality(TypesOf(handlers, h)),
                   wasGlobal |-> InSeq(h, global_handlers)]

otherThanBus == <<limiterVars, classifyVars, routerVars, estimate, moreVars>>

\* subscribe(event_type, handler)
Subscribe(t, h) ==
    /\ BusOp("subscribe", h)
    /\ handlers' = [handlers EXCEPT ![t] = AppendIfAbsent(@, h)]
    /\ UNCHANGED <<global_handlers, event_history, pub>>
    /\ UNCHANGED otherThanBus

\* unsubscribe(event_type, handler)
Unsubscribe(t, h) ==
    /\ BusOp("unsubscribe", h)
    /\ handlers' = [handlers EXCEPT ![t] = RemoveFirst(@, h)]
    /\ UNCHANGED <<global_handlers, event_history, pub>>
    /\ UNCHANGED otherThanBus

\* subscribe_all(handler)
SubscribeAll(h) ==
    /\ BusOp("subscribe_all", h)
    /\ global_handlers' = AppendIfAbsent(global_handlers, h)
    /\ UNCHANGED <<handlers, event_history, pub>>
    /\ UNCHANGED otherThanBus

\* Mutant of GlobalAfterUnsubscribeAll: the global handlers are left alone
GlobalKept(g, h) == g

\* if handler in self._global_handlers: self._global_handlers.remove(handler)
GlobalAfterUnsubscribeAll(g, h) == RemoveFirst(g, h)

\* for event_type in list(self._handlers.keys()): remove handler if present
HandlersAfterUnsubscribeAll(hs, h) == [t \in DOMAIN hs |-> RemoveFirst(hs[t], h)]

\* unsubscribe_all(handler)
UnsubscribeAll(h) ==
    /\ BusOp("unsubscribe_all", h)
    /\ handlers' = HandlersAfterUnsubscribeAll(handlers, h)
    /\ global_handlers' = GlobalAfterUnsubscribeAll(global_handlers, h)
    /\ UNCHANGED <<event_history, pub>>
    /\ UNCHANGED otherThanBus

\* self._event_history.append(event), and pop(0) beyond _max_history
HistoryAfterPublish(hist, e) ==
    IF Len(hist) + 1 > MaxHistory THEN Tail(Append(hist, e)) ELSE Append(hist, e)

\* publish(event), first locked block: the event enters the history
Publish(t) ==
    /\ pub.pc \in {"idle", "done"}
    /\ BusOp("publish", "none")
    /\ event_history' = HistoryAfterPublish(event_history, [type |-> t, seq |-> nbus'])
    /\ pub' = [IdlePublish EXCEPT !.pc = "snapshot",
                                  !.event = [type |-> t, seq |-> nbus']]
    /\ UNCHANGED <<handlers, global_handlers>>
    /\ UNCHANGED otherThanBus

\* second locked block: copies of the type's list and of the global list
PublishSnapshot ==
    /\ pub.pc = "snapshot"
    /\ pub' = [pub EXCEPT !.pc = IF handlers[pub.event.type] \o global_handlers = <<>>
                                 THEN "done" ELSE "dispatch",
                          !.subscribed = handlers[pub.event.type],
                          !.globals = global_handlers,
                          !.i = 1,
                          !.outcome = IF handlers[pub.event.type] \o global_handlers
                                            = <<>>
                                      THEN "returned" ELSE "none"]
    /\ UNCHANGED <<handlers, global_handlers, event_history, lastBus, nbus>>
    /\ UNCHANGED otherThanBus

\* one turn of "for handler in handlers_to_notify + global_handlers", outside
\* the lock: the handler is called; when it raises, the except clause prints
\* handler.__name__, which raises AttributeError out of publish when the
\* handler has no such attribute
Dispatch ==
    /\ pub.pc = "dispatch"
    /\ LET notify == pub.subscribed \o pub.globals
           h == notify[pub.i]
       IN  pub' = [pub EXCEPT
                !.delivered = Append(@, h),
                !.i = @ + 1,
                !.pc = IF (Raises(h) /\ ~HasName(h)) \/ pub.i = Len(notify)
                       THEN "done" ELSE "dispatch",
                !.outcome = IF Raises(h) /\ ~HasName(h) THEN "AttributeError"
                            ELSE IF pub.i = Len(notify) THEN "returned"
                            ELSE "none"]
    /\ UNCHANGED <<handlers, global_handlers, event_history, lastBus, nbus>>
    /\ UNCHANGED otherThanBus

\* an EventBus whose SYSTEM_STARTUP list is `first` and that is empty otherwise
InitBusWith(first) ==
    /\ handlers = [t \in EventTypes |->
                        IF t = "system_startup" THEN first ELSE <<>>]
    /\ global_handlers = <<>>
    /\ event_history = <<>>
    /\ pub = IdlePublish
    /\ lastBus = [op |-> "none", h |-> "none", count |-> 0, held |-> 0,
                  wasGlobal |-> FALSE]
    /\ nbus = 0

-----------------------------------------------------------------------------
(* Container and ServiceDescriptor (packages/modules/container.py), for one *)
(* service name and two threads calling get.  Python's None is NoInstance;  *)
(* the objects the factory builds are numbered 1, 2, ... in the order in    *)
(* which they are built, so two values are the same object exactly when the *)
(* numbers are equal.                                                       *)

MaxGets == 3

NoInstance == 0

\* what the registered callable does when it is called with the container
FactoryKinds == {"object", "returns_none", "raises"}

ContainerThreads == {1, 2}

\* _services without the name
NoService == [registered |-> FALSE, singleton |-> FALSE, factory |-> "none",
              instance |-> NoInstance]

\* ServiceDescriptor.__init__: _instance is None
NewDescriptor(singleton, factory) ==
    [registered |-> TRUE, singleton |-> singleton, factory |-> factory,
     instance |-> NoInstance]

\* _create_instance: self.factory(container), as the n+1-th call of the factory
CreateInstance(factory, n) == IF factory = "object" THEN n + 1 ELSE NoInstance

GetReturn(i, raised, value) == [thread |-> i, raised |-> raised, value |-> value]

otherThanContainer == <<limiterVars, classifyVars, routerVars, estimate, busVars,
                        lastAdmit, balanceQueries, lastDaily>>

\* register(name, factory, singleton) / register_factory(name, factory, singleton)
\* on a container that does not hold the name yet
Register(singleton, factory) ==
    /\ ~services.registered
    /\ services' = NewDescriptor(singleton, factory)
    /\ UNCHANGED <<descLock, getters, factoryCalls, returned, ngets>>
    /\ UNCHANGED otherThanContainer

\* get(name), the block under the container's lock: the descriptor is looked
\* up, DependencyError when the name is not registered
GetResolve(i) ==
    /\ getters[i] = "idle"
    /\ ngets < MaxGets
    /\ ngets' = ngets + 1
    /\ IF services.registered
       THEN /\ getters' = [getters EXCEPT ![i] = "resolved"]
            /\ UNCHANGED returned
       ELSE /\ returned' = Append(returned, GetReturn(i, "DependencyError", NoInstance))
            /\ UNCHANGED getters
    /\ UNCHANGED <<services, descLock, factoryCalls>>
    /\ UNCHANGED otherThanContainer

\* get_instance of a service that is not a singleton: _create_instance
GetTransient(i) ==
    /\ getters[i] = "resolved"
    /\ ~services.singleton
    /\ factoryCalls' = factoryCalls + 1
    /\ returned' = Append(returned,
            IF services.factory = "raises"
            THEN GetReturn(i, "FactoryError", NoInstance)
            ELSE GetReturn(i, "none", CreateInstance(services.factory, factoryCalls)))
    /\ getters' = [getters EXCEPT ![i] = "idle"]
    /\ UNCHANGED <<services, descLock, ngets>>
    /\ UNCHANGED otherThanContainer

\* get_instance of a singleton: "with self._lock" is entered
AcquireDescriptorLock(i) ==
    /\ getters[i] = "resolved"
    /\ services.singleton
    /\ descLock = 0
    /\ descLock' = i
    /\ getters' = [getters EXCEPT ![i] = "locked"]
    /\ UNCHANGED <<services, factoryCalls, returned, ngets>>
    /\ UNCHANGED otherThanContainer

\* under the lock: "if self._instance is None: self._instance =
\* self._create_instance(container)"; a factory that raises leaves the with
\* block and get
CreateIfNone(i) ==
    /\ getters[i] = "locked"
    /\ IF services.instance # NoInstance
       THEN /\ getters' = [getters EXCEPT ![i] = "created"]
            /\ UNCHANGED <<services, descLock, factoryCalls, returned>>
       ELSE /\ factoryCalls' = factoryCalls + 1
            /\ IF services.factory = "raises"
               THEN /\ returned' = Append(returned,
                                       GetReturn(i, "FactoryError", NoInstance))
                    /\ descLock' = 0
                    /\ getters' = [getters EXCEPT ![i] = "idle"]
                    /\ UNCHANGED services
               ELSE /\ services' = [services EXCEPT !.instance =
                                CreateInstance(services.factory, factoryCalls)]
                    /\ getters' = [getters EXCEPT ![i] = "created"]
                    /\ UNCHANGED <<descLock, returned>>
    /\ UNCHANGED ngets
    /\ UNCHANGED otherThanContainer

\* "return self._instance", and the lock is released
ReturnInstance(i) ==
    /\ getters[i] = "created"
    /\ returned' = Append(returned, GetReturn(i, "none", services.instance))
    /\ descLock' = 0
    /\ getters' = [getters EXCEPT ![i] = "idle"]
    /\ UNCHANGED <<services, factoryCalls, ngets>>
    /\ UNCHANGED otherThanContainer

\* Container(): nothing registered, nobody inside get
InitContainer ==
    /\ services = NoService
    /\ descLock = 0
    /\ getters = [i \in ContainerThreads |-> "idle"]
    /\ factoryCalls = 0
    /\ returned = <<>>
    /\ ngets = 0

-----------------------------------------------------------------------------
(* can_handle of the rate-quota provider (groq) and of the budget-metered   *)
(* provider (venice), called on their own between records and clock steps.  *)

ModelTypes == {"reasoning", "tooling"}

\* prompt sizes in tokens: a short prompt, one that with the response estimate
\* and 6000 recorded tokens passes 11000, one beyond the tooling context
GroqPrompts == {500, 5000, 9000}

NoAdmit == [p |-> "none", model_type |-> "none", prompt_tokens |-> 0, t |-> 0,
            requests |-> 0, used |-> 0, count |-> 0, spent |-> 0,
            known |-> NoValue, checked |-> NoValue, fetched |-> NoValue,
            ok |-> FALSE]

\* provider.can_handle(prompt, model_type=model_type) of the groq provider
GroqAdmit(prompt_tokens, model_type) ==
    LET r == GroqCanHandle(rpm_windows, tpm_windows, daily_usage, budget_usage,
                           today, now, prompt_tokens, model_type)
    IN  /\ rpm_windows' = r.rpm
        /\ tpm_windows' = r.tpm
        /\ lastAdmit' = [NoAdmit EXCEPT
                !.p = "groq", !.model_type = model_type,
                !.prompt_tokens = prompt_tokens, !.t = now,
                !.requests = Len(RecentCalls("groq", now)),
                !.used = SumCallTokens(RecentCalls("groq", now)),
                !.count = daily_usage[today]["groq"].request_count,
                !.ok = r.ok]
    /\ UNCHANGED <<now, today, daily_usage, budget_usage, dbLocked, calls, intended,
                   ncalls, lastOp, clockVars, threadVars>>
    /\ UNCHANGED <<classifyVars, routerVars, estimate, busVars, containerVars,
                   balanceQueries, lastDaily>>

\* prompt sizes in tokens for venice: a short prompt and a long one
VenicePrompts == {500, 33000}

\* what the balance endpoint answers: the request fails, or a DIEM balance
\* (0.004 is below the estimated cost of the short prompt, 0.05 above both)
VeniceFetches == {FetchFailed, 0, 400000, 5000000}

\* history: the last two entries of a list
LastTwo(s) == IF Len(s) > 2 THEN SubSeq(s, Len(s) - 1, Len(s)) ELSE s

\* provider.can_handle(prompt) of the venice provider; fetched is what the
\* balance endpoint answers if it is asked
VeniceAdmit(prompt_tokens, fetched) ==
    LET r == VeniceCanHandle(rpm_windows, daily_usage, budget_usage, today, now,
                             current_balance, last_balance_check, prompt_tokens,
                             fetched)
    IN  /\ rpm_windows' = r.rpm
        /\ current_balance' = r.bal
        /\ last_balance_check' = r.last
        /\ balanceQueries' = IF r.asked THEN LastTwo(Append(balanceQueries, now))
                              ELSE balanceQueries
        /\ lastAdmit' = [NoAdmit EXCEPT
                !.p = "venice", !.prompt_tokens = prompt_tokens, !.t = now,
                !.requests = Len(RecentCalls("venice", now)),
                !.count = daily_usage[today]["venice"].request_count,
                !.spent = budget_usage[today]["venice"],
                !.known = current_balance, !.checked = last_balance_check,
                !.fetched = fetched,
                !.ok = r.ok]
    /\ UNCHANGED <<now, today, tpm_windows, daily_usage, budget_usage, dbLocked, calls,
                   intended, ncalls, lastOp, clockVars, threadVars>>
    /\ UNCHANGED <<classifyVars, fallback_rules, request_history, fallback_counts,
                   providers, ollamaLive, requestVars, estimate, busVars,
                   containerVars, lastDaily>>

InitAdmitIdle ==
    /\ lastAdmit = NoAdmit
    /\ balanceQueries = <<>>

-----------------------------------------------------------------------------
(* check_daily_limits with a ledger that may not be readable: sqlite3.connect *)
(* or one of the two SELECT statements raises (the file is locked            *)
(* exclusively by another process, unreadable or damaged).                   *)

\* the statement of the try block that raises ("none": the ledger is readable)
ReadFailures == {"none", "connect", "request_count", "spent"}

NoDaily == [p |-> "none", arg |-> 0, fails |-> "none", excepted |-> FALSE,
            raised |-> FALSE, res |-> FALSE]

\* a statement that raises is executed: connect and the SELECT of
\* request_count always are, the SELECT of SUM(spent) only below the request
\* limit, with a cost estimate and for a provider that has a budget
ReadRaises(du, d, p, estCost, fails) ==
    \/ fails \in {"connect", "request_count"}
    \/ /\ fails = "spent"
       /\ du[d][p].request_count < RpdLimit(p)
       /\ estCost > 0
       /\ DailyBudget(p) # NoBudget

\* Mutant of DailyLimitsAnswer: the except clause admits the request
DailyLimitsAnswerFailsOpen(du, bu, d, p, estCost, fails) ==
    IF ReadRaises(du, d, p, estCost, fails)
    THEN [excepted |-> TRUE, raised |-> FALSE, res |-> TRUE]
    ELSE [excepted |-> FALSE, raised |-> FALSE, res |-> DailyOk(du, bu, d, p, estCost)]

\* the try block of check_daily_limits and its "except Exception: return False"
DailyLimitsAnswer(du, bu, d, p, estCost, fails) ==
    IF ReadRaises(du, d, p, estCost, fails)
    THEN [excepted |-> TRUE, raised |-> FALSE, res |-> FALSE]
    ELSE [excepted |-> FALSE, raised |-> FALSE, res |-> DailyOk(du, bu, d, p, estCost)]

\* check_daily_limits(provider, estimated_cost)
CheckDailyLimits(p, estCost, fails) ==
    LET a == DailyLimitsAnswer(daily_usage, budget_usage, today, p, estCost, fails)
    IN  /\ lastDaily' = [p |-> p, arg |-> estCost, fails |-> fails,
                         excepted |-> a.excepted, raised |-> a.raised, res |-> a.res]
        /\ lastOp' = [op |-> "check_daily", p |-> p, t |-> now, day |-> today,
                      arg |-> estCost, count |-> daily_usage[today][p].request_count,
                      res |-> a.res]
    /\ UNCHANGED <<now, today, rpm_windows, tpm_windows, daily_usage, budget_usage,
                   dbLocked, calls, intended, ncalls>>
    /\ UNCHANGED <<clockVars, threadVars>>
    /\ UNCHANGED <<classifyVars, routerVars, estimate, busVars, containerVars,
                   lastAdmit, balanceQueries>>

InitDailyIdle == lastDaily = NoDaily

InitMoreIdle == InitContainer /\ InitAdmitIdle /\ InitDailyIdle

InitEstimateIdle == estimate = NoEstimate

InitExtraIdle ==
    /\ InitEstimateIdle
    /\ InitBusWith(<<>>)
    /\ InitMoreIdle

-----------------------------------------------------------------------------
(* ModelRouter.execute_query, one step at a time.                          *)
(*   pc = "walk"    route_task is about to ask chain[idx] (or has run out)  *)
(*   pc = "query"   attempt number `attempt` of qprov's query is about to   *)
(*                  start                                                    *)
(*   pc = "done"    execute_query has returned or raised (see result)       *)

MaxRequests == 2

RouterTickSteps == {60}
\* (tokens counted by a tokenizer, tokens by the words * 1.3 heuristic) of a
\* prompt of 300, of 6500 and of 25400 words
TaskSizes == {<<500, 390>>, <<9000, 8450>>, <<33000, 33020>>}
FetchChoices == {FetchFailed, 0, 5000000, 100000000}
CallOutcomes == {"ok", "error", "402"}
OutputTokens == 200

TaskTexts == {
    <<"s", "e", "l", "f", " ", "r", "e", "f", "l", "e", "c", "t", "i", "o", "n">>,
    <<"h", "i", "g", "h", " ", "s", "t", "a", "k", "e", "s">>,
    <<"w", "r", "i", "t", "e", " ", "c", "o", "d", "e">>,
    <<"e", "x", "p", "l", "a", "i", "n">>,
    <<"w", "h", "a", "t", " ", "i", "s">>,
    <<"p", "l", "a", "n">>}

Tasks == {[desc |-> d, tok |-> z[1], ltok |-> z[2]] : d \in TaskTexts, z \in TaskSizes}

SmallTasks == {t \in Tasks : t.tok = 500}

\* (provider, entries in its RPM window, requests in its ledger row) at the start
WarmStarts == {<<"groq", 27, 27>>, <<"ollama", 0, RpdLimit("ollama") - 1>>}

NoTask == [desc |-> <<>>, tok |-> 0, ltok |-> 0]

\* provider.can_handle(...) of provider p in the present state
CanHandleNow(p, model_type, fetched) ==
    CASE p = "groq" ->
            LET r == GroqCanHandle(rpm_windows, tpm_windows, daily_usage, budget_usage,
                                   today, now, CountTokens(p, task), model_type)
            IN  [ok |-> r.ok, rpm |-> r.rpm, tpm |-> r.tpm,
                 bal |-> current_balance, last |-> last_balance_check]
      [] p = "venice" ->
            LET r == VeniceCanHandle(rpm_windows, daily_usage, budget_usage, today, now,
                                     current_balance, last_balance_check,
                                     CountTokens(p, task), fetched)
            IN  [ok |-> r.ok, rpm |-> r.rpm, tpm |-> tpm_windows,
                 bal |-> r.bal, last |-> r.last]
      [] p = "ollama" ->
            [ok |-> OllamaCanHandle(CountTokens(p, task), ollamaLive),
             rpm |-> rpm_windows, tpm |-> tpm_windows,
             bal |-> current_balance, last |-> last_balance_check]

\* provider.query(**provider_params) is entered: its first attempt begins
BeginQuery(p, max_tokens, model_type, m) ==
    /\ mode' = m
    /\ qprov' = p
    /\ queried' = queried \cup {p}
    /\ qmax' = max_tokens
    /\ qmodel' = model_type
    /\ attempt' = 1
    /\ pc' = "query"

ledgerVars == <<daily_usage, budget_usage, dbLocked, calls, intended>>

\* execute_query(task_description) is called: route_task classifies, estimates
\* and builds the provider chain
StartRequest(t) ==
    /\ pc \in {"idle", "done"}
    /\ nreq < MaxRequests
    /\ nreq' = nreq + 1
    /\ task' = t
    /\ description' = t.desc
    /\ category' = ClassifyTask(t.desc)
    /\ firstCategory' = category'
    /\ chain' = ProviderChain(
                    PreferredFor(category', EstimateTokenCount(providers, t)),
                    fallback_rules[category'], providers)
    /\ idx' = 1
    /\ pc' = "walk"
    /\ config' = NoConfig
    /\ mode' = "primary"
    /\ qprov' = "none"
    /\ queried' = {}
    /\ qmax' = 0
    /\ qmodel' = "none"
    /\ attempt' = 0
    /\ fbIdx' = 0
    /\ result' = "none"
    /\ respFrom' = "none"
    /\ walkLog' = <<>>
    /\ issueLog' = <<>>
    /\ liveInQuery' = TRUE
    /\ UNCHANGED <<limiterVars, extraVars, fallback_rules, request_history,
                   fallback_counts, providerVars>>

\* history: what check_rpm_limit answers inside p's can_handle ("none": it is
\* not reached)
RpmAnswer(p, prompt_tokens, model_type) ==
    IF \/ p = "ollama"
       \/ p = "groq" /\ prompt_tokens > GroqMaxContext(model_type) - ResponseReserve
       \/ p = "venice" /\ prompt_tokens > VeniceContext - ResponseReserve
    THEN "none"
    ELSE IF RpmOk(PruneRpm(rpm_windows[p], now), p) THEN "pass" ELSE "fail"

\* route_task asks the next provider of the chain
RouteStep(fetched) ==
    /\ pc = "walk"
    /\ idx <= Len(chain)
    /\ chain[idx] # "venice" => fetched = FetchFailed
    /\ LET p == chain[idx]
           r == CanHandleNow(p, RuleModelType(category), fetched)
       IN  /\ rpm_windows' = r.rpm
           /\ tpm_windows' = r.tpm
           /\ current_balance' = r.bal
           /\ last_balance_check' = r.last
           /\ walkLog' = Append(walkLog,
                    [p |-> p, ok |-> r.ok, bal |-> r.bal,
                     recent |-> Len(RecentCalls(p, now)),
                     rpm |-> RpmAnswer(p, CountTokens(p, task),
                                       RuleModelType(category))])
           /\ IF r.ok /\ ~VeniceLowBalance(p, r.bal)
              THEN /\ config' = [provider |-> p,
                                 task_category |-> category,
                                 estimated_tokens |-> EstimateTokenCount(providers, task),
                                 max_tokens |-> RouteMaxTokens(category),
                                 model_type |-> IF p = "groq"
                                                THEN RuleModelType(category)
                                                ELSE "none",
                                 forced |-> FALSE]
                   /\ BeginQuery(p, RouteMaxTokens(category),
                                 IF p = "groq" THEN RuleModelType(category)
                                 ELSE "none", "primary")
                   /\ liveInQuery' = ollamaLive
                   /\ idx' = idx
              ELSE /\ idx' = idx + 1
                   /\ UNCHANGED <<config, pc, mode, qprov, qmax, qmodel, queried, attempt,
                                  liveInQuery>>
    /\ UNCHANGED <<now, today, ledgerVars, ncalls, lastOp, classifyVars,
                   fallback_rules, request_history, fallback_counts, providers,
                   ollamaLive, task, chain, fbIdx, result, respFrom, nreq, issueLog>>
    /\ UNCHANGED <<clockVars, threadVars, extraVars>>

\* the walk selected nobody: Ollama as last resort, or RuntimeError, which
\* execute_query's handler turns into an UnboundLocalError (routing_config is
\* not bound)
RouteExhausted ==
    /\ pc = "walk"
    /\ idx > Len(chain)
    /\ IF LastResortProvider(providers) = "ollama"
       THEN /\ config' = [provider |-> "ollama",
                          task_category |-> category,
                          estimated_tokens |-> EstimateTokenCount(providers, task),
                          max_tokens |-> Min(RouteMaxTokens(category),
                                             ReducedMaxTokens),
                          model_type |-> "none",
                          forced |-> TRUE]
            /\ BeginQuery("ollama", Min(RouteMaxTokens(category), ReducedMaxTokens),
                          "none", "primary")
            /\ liveInQuery' = ollamaLive
            /\ UNCHANGED result
       ELSE /\ pc' = "done"
            /\ result' = "UnboundLocalError"
            /\ UNCHANGED <<config, mode, qprov, qmax, qmodel, queried, attempt, liveInQuery>>
    /\ UNCHANGED <<limiterVars, classifyVars, extraVars, fallback_rules,
                   request_history, fallback_counts, providerVars, task, chain, idx,
                   fbIdx, respFrom, nreq, walkLog, issueLog>>

\* the tokens and the cost a successful query hands to record_request
QueryTokens(p) == CountTokens(p, task) + OutputTokens

QueryCost(p, model_type) ==
    CASE p = "groq" -> QueryTokens(p) * GroqCostPerToken(model_type)
      [] p = "venice" -> CountTokens(p, task) * VeniceInputCost
                         + OutputTokens * VeniceOutputCost
      [] p = "ollama" -> 0

\* VeniceProvider imports the OpenAI SDK at module level and its constructor
\* sets use_sdk = True once the client is built: a registered Venice provider
\* always sends its completions through the SDK
UseSdk == TRUE

\* the except clauses of VeniceProvider.query: "self.current_balance = None"
\* stands under "except requests.exceptions.HTTPError" with status 402, which
\* only the requests.post path raises; the SDK reports an error status with
\* its own exception, which "except Exception" logs and re-raises
BalanceAfterError(bal, outcome) ==
    IF ~UseSdk /\ outcome = "402" THEN NoValue ELSE bal

\* Mutant of Admission: the attempt goes to the remote call unchecked
AdmissionSkipped(fetched) ==
    [ok |-> TRUE, rpm |-> rpm_windows, tpm |-> tpm_windows,
     bal |-> current_balance, last |-> last_balance_check]

\* "if not self.can_handle(prompt...): raise" at the head of a Groq or Venice
\* query attempt; Ollama's query makes no such check
Admission(fetched) ==
    IF qprov = "ollama"
    THEN [ok |-> TRUE, rpm |-> rpm_windows, tpm |-> tpm_windows,
          bal |-> current_balance, last |-> last_balance_check]
    ELSE CanHandleNow(qprov, qmodel, fetched)

\* a Groq attempt raises before its remote call when safe_max_tokens < 100
CallRefused(tw) ==
    /\ qprov = "groq"
    /\ GroqSafeMaxTokens(tw, now, CountTokens("groq", task), qmax) < MinMaxTokens

IssueEntry(ok, updates) ==
    [p |-> qprov, count |-> daily_usage[today][qprov].request_count,
     spent |-> daily_usage[today][qprov].cost, ok |-> ok, updates |-> updates]

\* the fallback list as _attempt_fallback leaves it on entry
FallbackList ==
    IF mode = "primary"
    THEN RemoveFirst(fallback_rules[config.task_category], config.provider)
    ELSE fallback_rules[config.task_category]

\* the position of the fallback loop after the query in progress has failed
FallbackNext ==
    NextFallback(FallbackList, IF mode = "primary" THEN 1 ELSE fbIdx + 1, providers)

\* The attempt raised.  Before the last attempt the retry decorator sleeps and
\* tries again.  After it the query has failed; the primary query: execute_query
\* records the failure and enters _attempt_fallback; a fallback query: the loop
\* of _attempt_fallback goes on.  When the loop is over execute_query raises
\* RuntimeError.
AttemptFails ==
    IF RetriesLeft(attempt)
    THEN /\ now' = now + BackoffSeconds(attempt)
         /\ attempt' = attempt + 1
         /\ UNCHANGED <<pc, mode, qprov, qmax, qmodel, queried, fbIdx, result, request_history,
                        fallback_rules>>
    ELSE /\ now' = now
         /\ request_history' =
                IF mode = "primary"
                THEN Append(request_history,
                            [provider |-> config.provider,
                             task_category |-> config.task_category,
                             success |-> FALSE])
                ELSE request_history
         /\ fallback_rules' =
                [fallback_rules EXCEPT ![config.task_category] = FallbackList]
         /\ IF FallbackNext <= Len(FallbackList)
            THEN /\ fbIdx' = FallbackNext
                 /\ BeginQuery(FallbackList[FallbackNext],
                               FallbackMaxTokens(config.max_tokens),
                               IF FallbackList[FallbackNext] # "groq" THEN "none"
                               ELSE IF config.model_type = "none" THEN "reasoning"
                               ELSE config.model_type,
                               "fallback")
                 /\ UNCHANGED result
            ELSE /\ pc' = "done"
                 /\ result' = "RuntimeError"
                 /\ UNCHANGED <<fbIdx, mode, qprov, qmax, qmodel, queried, attempt>>

\* One attempt of provider.query: the admission check, the remote call,
\* record_request and the response, or the exception and what follows it.
\* Only Venice fetches a balance and is answered 402 (payment required);
\* Ollama answers exactly when it is live.
Attempt(fetched, outcome) ==
    /\ pc = "query"
    /\ qprov # "venice" => fetched = FetchFailed /\ outcome # "402"
    /\ qprov = "ollama" => outcome = (IF ollamaLive THEN "ok" ELSE "error")
    /\ now + BackoffSeconds(attempt) <= MaxTime
    /\ LET r == Admission(fetched)
           issued == r.ok /\ ~CallRefused(r.tpm)
       IN  /\ last_balance_check' = r.last
           /\ IF issued /\ outcome = "ok"
              THEN /\ DoRecordOn(r.rpm, r.tpm, qprov, QueryTokens(qprov),
                                 QueryCost(qprov, qmodel))
                   /\ issueLog' = Append(issueLog,
                        IssueEntry(TRUE, daily_usage'[today][qprov].request_count
                                         - daily_usage[today][qprov].request_count))
                   /\ current_balance' = r.bal
                   /\ pc' = "done"
                   /\ result' = "response"
                   /\ respFrom' = qprov
                   /\ IF mode = "primary"
                      THEN /\ request_history' = Append(request_history,
                                    [provider |-> qprov,
                                     task_category |-> config.task_category,
                                     success |-> TRUE])
                           /\ UNCHANGED fallback_counts
                      ELSE /\ fallback_counts' =
                                    [fallback_counts EXCEPT ![config.provider] = @ + 1]
                           /\ UNCHANGED request_history
                   /\ UNCHANGED <<now, mode, qprov, qmax, qmodel, queried, attempt, fbIdx,
                                  fallback_rules>>
              ELSE /\ rpm_windows' = r.rpm
                   /\ tpm_windows' = r.tpm
                   /\ issueLog' = IF issued THEN Append(issueLog, IssueEntry(FALSE, 0))
                                  ELSE issueLog
                   /\ current_balance' =
                        IF issued /\ qprov = "venice"
                        THEN BalanceAfterError(r.bal, outcome) ELSE r.bal
                   /\ AttemptFails
                   /\ UNCHANGED <<ledgerVars, fallback_counts, respFrom>>
    /\ UNCHANGED <<today, ncalls, lastOp, classifyVars, providers, ollamaLive, task,
                   chain, idx, config, nreq, walkLog, liveInQuery>>
    /\ UNCHANGED <<clockVars, threadVars, extraVars>>

\* environment: the Ollama endpoint goes down or comes back
OllamaGoes(b) ==
    /\ ollamaLive # b
    /\ ollamaLive' = b
    /\ liveInQuery' = IF pc = "query" THEN FALSE ELSE liveInQuery
    /\ UNCHANGED <<limiterVars, classifyVars, extraVars, fallback_rules,
                   request_history, fallback_counts, providers, current_balance,
                   last_balance_check,
                   pc, task, chain, idx, config, mode, qprov, qmax, qmodel, queried, attempt,
                   fbIdx, result, respFrom, nreq, walkLog, issueLog>>

ProviderSets == (SUBSET Providers) \ {{}}

InitRouterWith(ps, live) ==
    /\ providers = ps
    /\ fallback_rules = [c \in Categories |-> InitialFallbacks(c)]
    /\ request_history = <<>>
    /\ fallback_counts = [p \in Providers |-> 0]
    /\ current_balance = NoValue
    /\ last_balance_check = NoValue
    /\ ollamaLive = live
    /\ pc = "idle"
    /\ task = NoTask
    /\ chain = <<>>
    /\ idx = 0
    /\ config = NoConfig
    /\ mode = "primary"
    /\ qprov = "none"
    /\ queried = {}
    /\ qmax = 0
    /\ qmodel = "none"
    /\ attempt = 0
    /\ fbIdx = 0
    /\ result = "none"
    /\ respFrom = "none"
    /\ nreq = 0
    /\ walkLog = <<>>
    /\ issueLog = <<>>
    /\ liveInQuery = TRUE

InitRouterIdle == InitRouterWith(Providers, TRUE)

\* the first request of a router in any configuration
FirstRequest(t) == nreq = 0 /\ StartRequest(t)

InitRouter ==
    /\ InitClassifyIdle
    /\ InitExtraIdle
    /\ \/ /\ InitLimiterWith("groq", 0, 0)
          /\ \E ps \in ProviderSets, live \in BOOLEAN : InitRouterWith(ps, live)
       \/ /\ \E w \in WarmStarts : InitLimiterWith(w[1], w[2], w[3])
          /\ InitRouterWith(Providers, TRUE)

NextRouter ==
    \/ \E t \in Tasks : FirstRequest(t)
    \/ \E f \in FetchChoices : RouteStep(f)
    \/ RouteExhausted
    \/ \E f \in FetchChoices, o \in CallOutcomes : Attempt(f, o)
    \/ \E b \in BOOLEAN : OllamaGoes(b)
    \/ \E d \in RouterTickSteps : Tick(d)

SpecRouter == InitRouter /\ [][NextRouter]_vars

\* The first request of a router, with a query in progress always going on to
\* its next attempt: the backoff sleep ends and every remote call has a
\* timeout.  The clock moves with the backoff sleeps only.
NextRouterLive ==
    \/ \E t \in Tasks : FirstRequest(t)
    \/ \E f \in FetchChoices : RouteStep(f)
    \/ RouteExhausted
    \/ \E f \in FetchChoices, o \in CallOutcomes : Attempt(f, o)
    \/ \E b \in BOOLEAN : OllamaGoes(b)

SpecRouterLive ==
    /\ InitRouter
    /\ [][NextRouterLive]_vars
    /\ WF_vars(\E f \in FetchChoices, o \in CallOutcomes : Attempt(f, o))

\* a sequence of requests to a router with all three providers
InitRouterSeq ==
    /\ InitClassifyIdle
    /\ InitExtraIdle
    /\ \E w \in WarmStarts : InitLimiterWith(w[1], w[2], w[3])
    /\ InitRouterWith(Providers, TRUE)

NextRouterSeq ==
    \/ \E t \in SmallTasks : StartRequest(t)
    \/ \E f \in FetchChoices : RouteStep(f)
    \/ RouteExhausted
    \/ \E f \in FetchChoices, o \in CallOutcomes : Attempt(f, o)
    \/ \E b \in BOOLEAN : OllamaGoes(b)
    \/ GcCollect

SpecRouterSeq == InitRouterSeq /\ [][NextRouterSeq]_vars

-----------------------------------------------------------------------------
(* The specifications of the RateLimiter and of the classifier on their own *)

InitLimiter ==
    /\ InitClassifyIdle
    /\ InitExtraIdle
    /\ InitRouterIdle
    /\ \E w \in {<<0, 0>>, <<26, 26>>, <<26, RpdLimit("groq") - 1>>} :
        InitLimiterWith("groq", w[1], w[2])

\* The sliding windows: record, the two window checks, the clock.  The cost of
\* a request never reaches the windows, so the records made here are free.
NextWindow ==
    \/ \E p \in Providers, u \in WindowUsageChoices : RecordRequest(p, u[1], u[2])
    \/ \E p \in Providers : CheckRpm(p)
    \/ \E p \in Providers, est \in EstTokenChoices : CheckTpm(p, est)
    \/ \E d \in TickSteps : Tick(d)

SpecWindow == InitLimiter /\ [][NextWindow]_vars

\* The durable ledger: record, the daily check, the calendar, the collector
NextLedger ==
    \/ \E p \in Providers, u \in UsageChoices : RecordRequest(p, u[1], u[2])
    \/ \E p \in Providers, c \in EstCostChoices : CheckDaily(p, c)
    \/ Midnight
    \/ GcCollect

SpecLedger == InitLimiter /\ [][NextLedger]_vars

\* The three checks side by side, with records and the clock between them,
\* for the two providers that have limits
CheckedProviders == {"groq", "venice"}
\* Recorded requests that count in every window: tokens, with and without cost
CheckedUsage == {u \in UsageChoices : u[1] > 0}

NextChecks ==
    \/ \E p \in CheckedProviders, u \in CheckedUsage : RecordRequest(p, u[1], u[2])
    \/ \E p \in CheckedProviders : CheckRpm(p)
    \/ \E p \in CheckedProviders, est \in EstTokenChoices : CheckTpm(p, est)
    \/ \E p \in CheckedProviders, c \in EstCostChoices : CheckDaily(p, c)
    \/ \E d \in TickSteps : Tick(d)

SpecChecks == InitLimiter /\ [][NextChecks]_vars

\* The token window on its own, with estimates on both sides of what is left
\* of groq's limit after one recorded request of 6000 tokens
TpmEstimates == {500, 5000, 5001}

NextTpm ==
    \/ \E p \in Providers, u \in WindowUsageChoices : RecordRequest(p, u[1], u[2])
    \/ \E p \in Providers, est \in TpmEstimates : CheckTpm(p, est)
    \/ \E d \in TickSteps : Tick(d)

SpecTpm == InitLimiter /\ [][NextTpm]_vars

\* groq's can_handle for either model variant, between records and clock steps
NextGroqAdmit ==
    \/ \E u \in WindowUsageChoices : RecordRequest("groq", u[1], u[2])
    \/ \E n \in GroqPrompts, m \in ModelTypes : GroqAdmit(n, m)
    \/ \E d \in TickSteps : Tick(d)

SpecGroqAdmit == InitLimiter /\ [][NextGroqAdmit]_vars

InitClassify ==
    /\ InitLimiterWith("groq", 0, 0)
    /\ InitClassifyIdle
    /\ InitExtraIdle
    /\ InitRouterIdle

NextClassify ==
    \/ \E f \in Fragments : AppendFragment(f)
    \/ Classify
    \/ NewDescription

SpecClassify == InitClassify /\ [][NextClassify]_vars

\* The calendar: the ledger's operations on hosts in UTC and west of UTC
InitCalendar ==
    /\ InitClassifyIdle
    /\ InitExtraIdle
    /\ InitRouterIdle
    /\ \E z \in {"utc", "west"}, w \in {<<0, 0>>, <<26, 26>>} :
            InitLimiterIn("groq", w[1], w[2], z)

NextCalendar ==
    \/ \E p \in Providers, u \in UsageChoices : RecordRequest(p, u[1], u[2])
    \/ \E p \in Providers, c \in EstCostChoices : CheckDaily(p, c)
    \/ Midnight
    \/ UtcMidnight
    \/ GcCollect

SpecCalendar == InitCalendar /\ [][NextCalendar]_vars

\* The ledger and the windows across a restart of the process
NextRestart ==
    \/ \E p \in Providers, u \in UsageChoices : RecordRequest(p, u[1], u[2])
    \/ \E p \in Providers, c \in EstCostChoices : CheckDaily(p, c)
    \/ \E p \in Providers : CheckRpm(p)
    \/ Restart
    \/ GcCollect

SpecRestart == InitLimiter /\ [][NextRestart]_vars

\* Two caller threads of one RateLimiter
InitThreads ==
    /\ InitClassifyIdle
    /\ InitExtraIdle
    /\ InitRouterIdle
    /\ \E w \in {<<0, 0>>, <<26, 26>>} : InitLimiterWith("groq", w[1], w[2])

NextThreads ==
    \/ \E i \in ThreadIds, c \in ThreadChecks, p \in ThreadProviders :
            BeginCheck(i, c[1], p, c[2])
    \/ \E i \in ThreadIds : EndCheck(i)
    \/ \E i \in ThreadIds : ThreadRecord(i)
    \/ \E d \in RouterTickSteps : Tick(d)

SpecThreads == InitThreads /\ [][NextThreads]_vars

\* The token estimate on its own
NextEstimate ==
    \/ \E f \in TextPieces : AppendText(f)
    \/ EstimateTokens
    \/ NewText

SpecEstimate == InitClassify /\ [][NextEstimate]_vars

\* The EventBus on its own
NextBus ==
    \/ \E t \in EventTypes, h \in Handlers : Subscribe(t, h)
    \/ \E t \in EventTypes, h \in Handlers : Unsubscribe(t, h)
    \/ \E h \in Handlers : SubscribeAll(h)
    \/ \E h \in Handlers : UnsubscribeAll(h)
    \/ \E t \in EventTypes : Publish(t)
    \/ PublishSnapshot
    \/ Dispatch

\* a new EventBus, or one on which test_handler is subscribed to
\* SYSTEM_STARTUP
InitBus ==
    /\ InitLimiterWith("groq", 0, 0)
    /\ InitClassifyIdle
    /\ InitRouterIdle
    /\ InitEstimateIdle
    /\ InitMoreIdle
    /\ \E first \in {<<>>, <<"test_handler">>} : InitBusWith(first)

SpecBus == InitBus /\ [][NextBus]_vars

\* The Container on its own: one service name, two threads calling get
NextContainer ==
    \/ \E singleton \in BOOLEAN, factory \in FactoryKinds :
            Register(singleton, factory)
    \/ \E i \in ContainerThreads : GetResolve(i)
    \/ \E i \in ContainerThreads : GetTransient(i)
    \/ \E i \in ContainerThreads : AcquireDescriptorLock(i)
    \/ \E i \in ContainerThreads : CreateIfNone(i)
    \/ \E i \in ContainerThreads : ReturnInstance(i)

SpecContainer == InitClassify /\ [][NextContainer]_vars

\* venice's can_handle between records, 402 answers and clock steps
NextVeniceAdmit ==
    \/ \E u \in UsageChoices : RecordRequest("venice", u[1], u[2])
    \/ \E n \in VenicePrompts, f \in VeniceFetches : VeniceAdmit(n, f)
    \/ \E d \in RouterTickSteps : Tick(d)

SpecVeniceAdmit == InitClassify /\ [][NextVeniceAdmit]_vars

\* check_daily_limits on a ledger that is not always readable, between records
\* and the change of day
NextDaily ==
    \/ \E p \in CheckedProviders, u \in CheckedUsage : RecordRequest(p, u[1], u[2])
    \/ \E p \in CheckedProviders, c \in EstCostChoices, f \in ReadFailures :
            CheckDailyLimits(p, c, f)
    \/ Midnight

SpecDaily == InitLimiter /\ [][NextDaily]_vars

-----------------------------------------------------------------------------
(* Properties of the RateLimiter *)

\* C1: after any number of record_request calls, today's ledger row of every
\* provider holds exactly one request per call and exactly the sum of the costs
\* (no update is lost or dropped, with cost > 0 as with cost = 0).
C1_LedgerCountsEveryRecord ==
    \A d \in Days, p \in Providers :
        /\ daily_usage[d][p].request_count = intended[d][p].request_count
        /\ daily_usage[d][p].cost = intended[d][p].cost

\* C4: check_rpm_limit and check_tpm_limit at time t count only the entries
\* recorded in the 60 seconds before t, and leave no entry older than 60 seconds
\* in the window they read.
C4_ChecksSeeLastMinuteOnly ==
    /\ lastOp.op = "check_rpm" =>
          /\ lastOp.count = Len(RecentCalls(lastOp.p, lastOp.t))
          /\ \A i \in 1..Len(rpm_windows[lastOp.p]) :
                lastOp.t - rpm_windows[lastOp.p][i] < WindowSeconds
    /\ lastOp.op = "check_tpm" =>
          /\ lastOp.count = SumCallTokens(RecentCalls(lastOp.p, lastOp.t))
          /\ \A i \in 1..Len(tpm_windows[lastOp.p]) :
                lastOp.t - tpm_windows[lastOp.p][i][1] < WindowSeconds

\* C4 witness: a check made when the provider has an entry older than 60 seconds
\* and a younger one; only the younger one is counted.
C4_Witness ==
    /\ lastOp.op = "check_tpm"
    /\ lastOp.count > 0
    /\ \E i \in 1..Len(calls) :
          /\ calls[i].p = lastOp.p
          /\ calls[i].tokens > 0
          /\ lastOp.t - calls[i].t >= WindowSeconds

\* C5: when the cost accrued today by earlier record calls plus the estimated
\* cost exceeds the provider's daily budget, check_daily_limits returns False.
C5_BudgetCheckCountsAccruedCost ==
    (/\ lastOp.op = "check_daily"
     /\ DailyBudget(lastOp.p) # NoBudget
     /\ intended[lastOp.day][lastOp.p].cost + lastOp.arg > DailyBudget(lastOp.p))
    => lastOp.res = FALSE

-----------------------------------------------------------------------------
(* Properties of the router *)

\* C2: execute_query (forced last-resort route and request-level fallback
\* included) never issues a query to a provider whose ledger row for today
\* already shows its daily request limit reached or its daily budget spent.
C2_NoQueryPastDailyLimits ==
    \A i \in 1..Len(issueLog) :
        /\ issueLog[i].count < RpdLimit(issueLog[i].p)
        /\ DailyBudget(issueLog[i].p) # NoBudget =>
                issueLog[i].spent < DailyBudget(issueLog[i].p)

\* C3: every provider query that returned a response has caused exactly one
\* update of today's ledger row of that provider (request_count + 1) before
\* the response reached the caller.
C3_OneLedgerUpdatePerResponse ==
    \A i \in 1..Len(issueLog) : issueLog[i].ok => issueLog[i].updates = 1

\* can_handle returned True and the provider is not a Venice whose known
\* balance is below venice_budget_threshold
Accepted(e) ==
    e.ok /\ ~(e.p = "venice" /\ e.bal # NoValue /\ e.bal < VeniceBudgetThreshold)

\* the first registered provider among the fallbacks the rule names
NamedFallback(c) ==
    IF \E i \in 1..Len(InitialFallbacks(c)) : InitialFallbacks(c)[i] \in providers
    THEN InitialFallbacks(c)[NextFallback(InitialFallbacks(c), 1, providers)]
    ELSE "none"

\* C6: check_rpm_limit answers False exactly when the requests recorded in the
\* last 60 seconds number at least rpm_limit - buffer; and when it does so for
\* the preferred provider groq, route_task goes on to the rule's named fallback
\* provider and selects it if it is willing.
C6_RpmLimitAdvancesToNamedFallback ==
    /\ \A i \in 1..Len(walkLog) :
          walkLog[i].rpm # "none" =>
             (walkLog[i].rpm = "fail"
                <=> walkLog[i].recent >= RpmLimit(walkLog[i].p) - RpmBuffer)
    /\ (/\ Len(walkLog) >= 2
        /\ PreferredProvider(category) = "groq"
        /\ task.tok <= MaxPromptTokens
        /\ walkLog[1].p = "groq"
        /\ walkLog[1].rpm = "fail"
        /\ NamedFallback(category) # "none")
       => /\ walkLog[2].p = NamedFallback(category)
          /\ Accepted(walkLog[2]) => config.provider = NamedFallback(category)

\* every candidate of the chain has been asked and none was willing
AllCandidatesRefused ==
    /\ Len(walkLog) = Len(chain)
    /\ \A i \in 1..Len(walkLog) : ~walkLog[i].ok

C8_LargePromptPrefersLargestContext ==
    (pc # "idle" /\ EstimateTokenCount(providers, task) > MaxPromptTokens)
    => \A q \in providers : ContextWindow(chain[1]) >= ContextWindow(q)

\* C9 as stated: the first provider of the chain whose can_handle returns True
\* is the one route_task returns, and the walk goes no further.
C9_FirstWillingProviderSelected ==
    \A i \in 1..Len(walkLog) :
        (walkLog[i].ok /\ \A j \in 1..(i - 1) : ~walkLog[j].ok)
        => (config.provider = walkLog[i].p /\ Len(walkLog) = i)

\* C9 amended: route_task returns the first provider of the chain whose
\* can_handle returns True and that is not a Venice with a known balance below
\* venice_budget_threshold: the walk stops there, every provider before it
\* was asked and passed over, and nobody else is ever returned by the walk.
C9_FirstAcceptedProviderSelected ==
    /\ \A i \in 1..Len(walkLog) :
          /\ walkLog[i].p = chain[i]
          /\ Accepted(walkLog[i]) =>
                /\ Len(walkLog) = i
                /\ config.provider = walkLog[i].p
                /\ ~config.forced
    /\ (config # NoConfig /\ ~config.forced) =>
          /\ walkLog # <<>>
          /\ Accepted(walkLog[Len(walkLog)])
          /\ config.provider = walkLog[Len(walkLog)].p

\* C9 witness: Venice was willing but its balance is below the threshold, and
\* the walk went on to select a later provider.
C9_Witness ==
    /\ Len(walkLog) >= 2
    /\ \E i \in 1..(Len(walkLog) - 1) :
          /\ walkLog[i].p = "venice"
          /\ walkLog[i].ok
          /\ \A j \in 1..(i - 1) : ~walkLog[j].ok
    /\ ~config.forced
    /\ config.provider = walkLog[Len(walkLog)].p
    /\ config.provider # "venice"

-----------------------------------------------------------------------------
(* Properties of the classifier *)

\* The matchers in the order _classify_task tests them
MatcherOrder == <<"self_reflection", "critical_analysis", "code_generation",
                  "documentation", "quick_answer">>

KeywordsOf(c) ==
    CASE c = "self_reflection" -> SelfReflectionKeywords
      [] c = "critical_analysis" -> CriticalAnalysisKeywords
      [] c = "code_generation" -> CodeGenerationKeywords
      [] c = "documentation" -> DocumentationKeywords
      [] c = "quick_answer" -> QuickAnswerKeywords

\* k occurs in s as a substring, letter case ignored
OccursIgnoringCase(k, s) ==
    \E i \in 0..(Len(s) - Len(k)) :
        \A j \in 1..Len(k) : LowerChar(s[i + j]) = LowerChar(k[j])

Matches(c, s) == \E k \in KeywordsOf(c) : OccursIgnoringCase(k, s)

-----------------------------------------------------------------------------
(* Properties of the token estimate *)

\* the smallest whole number of tokens not below x tenths, in tenths
CeilTenths(x) == ((x + 9) \div 10) * 10

\* C11: for every text, the estimate of the heuristic path equals
\* ceil(wordCount(text) * 1.3), a whole number of tokens.
C11_HeuristicEstimateIsCeiling ==
    estimate # NoEstimate =>
        estimate = CeilTenths(13 * WordCount(description))

-----------------------------------------------------------------------------
(* Properties of the ledger over time *)

\* no record_request call for p was made on the present UTC day
NoCallThisUtcDay(p) ==
    \A i \in 1..Len(calls) : ~(calls[i].p = p /\ calls[i].utc = utcDay)

\* the entry the next operation finds for p is a fresh one
FreshEntry(p) ==
    /\ daily_usage[today][p].request_count = 0
    /\ daily_usage[today][p].cost = 0

CostNeverDecreases ==
    \A d \in Days, p \in Providers : daily_usage'[d][p].cost >= daily_usage[d][p].cost

\* C12: across any sequence of record and check operations the accrued cost of
\* a ledger entry never decreases, and the first operation of a provider after
\* the UTC day boundary finds a fresh entry (request count and cost zero).
C12_CostMonotoneAndFreshAfterUtcMidnight ==
    /\ [](\A p \in Providers : (utcDay > 0 /\ NoCallThisUtcDay(p)) => FreshEntry(p))
    /\ [][CostNeverDecreases]_vars

\* C13: a restart leaves today's ledger entry of every provider as it was, so
\* that check_daily_limits answers as it did before, and empties the windows.
C13_LedgerSurvivesRestart ==
    [][restarts' = restarts + 1 =>
        \A p \in Providers :
            /\ daily_usage'[today'][p] = daily_usage[today][p]
            /\ \A c \in EstCostChoices :
                    DailyOk(daily_usage', budget_usage', today', p, c)
                        = DailyOk(daily_usage, budget_usage, today, p, c)
            /\ rpm_windows'[p] = <<>>
            /\ tpm_windows'[p] = <<>>]_vars

\* C13 witness: after a restart check_daily_limits still refuses the provider
\* whose entry shows the daily request limit reached, while the RPM window
\* that held its requests of the last minute is empty.
C13_Witness ==
    /\ restarts = 1
    /\ lastOp.op = "check_daily"
    /\ lastOp.res = FALSE
    /\ daily_usage[today][lastOp.p].request_count >= RpdLimit(lastOp.p)
    /\ RecentCalls(lastOp.p, now) # <<>>
    /\ rpm_windows[lastOp.p] = <<>>

-----------------------------------------------------------------------------
(* Properties of the RateLimiter under concurrent callers *)

\* C14: two callers that both passed check_tpm_limit and then both recorded
\* can leave the window above tpm_limit - buffer, and this wedges nothing: a
\* check_tpm_limit made when every recorded entry of the provider is 60
\* seconds old or older returns True for a request that fits the limit.
C14_OvercommitExpiresWithTheWindow ==
    (/\ lastOp.op = "check_tpm"
     /\ lastOp.arg <= TpmLimit(lastOp.p) - TpmBuffer
     /\ RecentCalls(lastOp.p, lastOp.t) = <<>>)
    => lastOp.res = TRUE

\* C14 witness: both callers passed the check before either recorded, their
\* two records overfilled the window, and 60 seconds later the check passes
\* again.
C14_Witness ==
    /\ overcommitted # "none"
    /\ lastOp.op = "check_tpm"
    /\ lastOp.p = overcommitted
    /\ lastOp.arg = 6000
    /\ lastOp.res = TRUE
    /\ \A i \in 1..Len(calls) : lastOp.t - calls[i].t >= WindowSeconds

\* C15: whenever no check of a provider is in progress, every entry recorded
\* for it in the last 60 seconds is in its windows (an interleaved prune never
\* drops a fresh append).
C15_NoFreshAppendLost ==
    \A p \in Providers :
        (\A i \in ThreadIds : ~(threads[i].pc = "pruned" /\ threads[i].p = p))
        => /\ Len(SelectSeq(rpm_windows[p], LAMBDA ts : ts > now - WindowSeconds))
                >= Len(RecentCalls(p, now))
           /\ Len(SelectSeq(tpm_windows[p], LAMBDA e : e[1] > now - WindowSeconds))
                >= Len(SelectSeq(RecentCalls(p, now), LAMBDA c : c.tokens > 0))

-----------------------------------------------------------------------------
(* Properties of execute_query's outcome and telemetry *)

\* C16: when route_task finds no provider (nobody accepted and Ollama is not
\* registered), execute_query raises RuntimeError to its caller and has issued
\* no provider query.
C16_NoProviderRaisesRuntimeError ==
    (pc = "done" /\ config = NoConfig /\ "ollama" \notin providers)
    => (result = "RuntimeError" /\ issueLog = <<>>)

\* C17: every execute_query call that returned a response has appended a
\* request_history record with success = True naming the provider that
\* produced the response, fallback providers included.
C17_ResponseHasSuccessRecord ==
    (pc = "done" /\ result = "response")
    => \E i \in 1..Len(request_history) :
            /\ request_history[i].success
            /\ request_history[i].provider = respFrom

\* C18: every execute_query call that ended by raising has appended a
\* request_history record with success = False, also when it was route_task
\* that raised.
C18_FailureHasFailureRecord ==
    (pc = "done" /\ result \in {"RuntimeError", "UnboundLocalError"})
    => \E i \in 1..Len(request_history) : ~request_history[i].success

-----------------------------------------------------------------------------
(* Properties of the EventBus *)

\* s without every occurrence of h
Without(s, h) == SelectSeq(s, LAMBDA x : x # h)

\* C19: unsubscribe_all(h) removes h from the list of every event type and
\* from the global handlers and leaves every other handler where it was, so
\* that get_handler_count() is what it was without h's subscriptions.
C19_UnsubscribeAllRemovesOnlyThatHandler ==
    [][(nbus' = nbus + 1 /\ lastBus'.op = "unsubscribe_all") =>
        /\ \A t \in EventTypes : handlers'[t] = Without(handlers[t], lastBus'.h)
        /\ global_handlers' = Without(global_handlers, lastBus'.h)
        /\ GetHandlerCount(handlers')
              = GetHandlerCount(handlers)
                    - Cardinality(TypesOf(handlers, lastBus'.h))]_vars

\* C19 witness: unsubscribe_all of a handler subscribed to two event types and
\* globally, with another handler's subscription left in place.
C19_Witness ==
    /\ lastBus.op = "unsubscribe_all"
    /\ lastBus.held = 2
    /\ lastBus.wasGlobal
    /\ GetHandlerCount(handlers) = lastBus.count - 2
    /\ GetHandlerCount(handlers) > 0
    /\ ~InSeq(lastBus.h, global_handlers)

\* C20: when publish(e) is over, e is the last entry of the history, each
\* handler subscribed to e's type and each global handler has been called
\* once, type handlers first and in subscription order, and publish has
\* returned normally whatever the handlers raised.
C20_PublishDeliversToEverySubscriber ==
    pub.pc = "done" =>
        /\ event_history # <<>>
        /\ event_history[Len(event_history)] = pub.event
        /\ pub.delivered = pub.subscribed \o pub.globals
        /\ pub.outcome = "returned"

-----------------------------------------------------------------------------
(* Properties of the Container *)

\* the get calls that came back with a value
ValuesReturned == {returned[k].value : k \in {j \in 1..Len(returned) :
                                                returned[j].raised = "none"}}

\* the get calls that reached get_instance
ReachedInstance == {k \in 1..Len(returned) : returned[k].raised # "DependencyError"}

\* C21: for a service registered with singleton=True every get returns the
\* same instance and its factory is invoked at most once, also when two
\* threads call get at the same time; for a service registered without
\* singleton the factory is invoked on each get.
C21_SingletonBuiltOnceTransientPerGet ==
    services.registered =>
        IF services.singleton
        THEN /\ Cardinality(ValuesReturned) <= 1
             /\ factoryCalls <= 1
        ELSE factoryCalls = Cardinality(ReachedInstance)

-----------------------------------------------------------------------------
(* Properties of the candidate list and of the request-level fallback *)

Occurrences(x, s) == Cardinality({i \in 1..Len(s) : s[i] = x})

\* the list the claim describes up to the last-resort part: the preferred
\* provider when it is registered, then the registered names of the rule's
\* fallback list in rule order
NamedCandidates ==
    LET preferred == PreferredFor(category, EstimateTokenCount(providers, task))
        named(p) == p \in providers /\ p # preferred
    IN  (IF preferred \in providers THEN <<preferred>> ELSE <<>>)
            \o SelectSeq(fallback_rules[category], named)

ChainAsClaimed ==
    /\ \A p \in providers : Occurrences(p, chain) = 1
    /\ \A i \in 1..Len(chain) : chain[i] \in providers
    /\ Len(chain) >= Len(NamedCandidates)
    /\ SubSeq(chain, 1, Len(NamedCandidates)) = NamedCandidates

\* C22: the candidate list built by route_task is the preferred provider if
\* it is registered, then the rule's fallback providers in rule order, then
\* the remaining registered providers; every registered provider is in it
\* exactly once and no unregistered provider is in it.
C22_ChainIsPreferredFallbacksThenRest ==
    [][nreq' = nreq + 1 => ChainAsClaimed']_vars

\* critical_analysis with every provider registered: the preferred venice,
\* the rule's fallback groq, then ollama as the remaining provider
C22_Witness ==
    /\ pc = "walk"
    /\ idx = 1
    /\ category = "critical_analysis"
    /\ chain = <<"venice", "groq", "ollama">>

\* C23: when the routed provider's query has raised after its own retries,
\* execute_query goes on with the next candidate and hands it a max_tokens of
\* half the original, not below the minimum, and returns the first fallback
\* response it obtains.
C23_FallbackQueryGetsHalfMaxTokens ==
    /\ (mode = "fallback" /\ pc = "query") =>
            /\ qprov # config.provider
            /\ qmax = Max(config.max_tokens \div 2, MinMaxTokens)
    /\ (mode = "fallback" /\ result = "response") => respFrom = qprov

\* C24: a provider error is never fatal while an untried registered provider
\* remains: when execute_query fails the request after provider queries have
\* failed, it has queried every registered provider, whatever the category
\* (rules with an empty fallback list included).
C24_FailsOnlyAfterEveryProviderQueried ==
    (pc = "done" /\ result = "RuntimeError" /\ queried # {}) =>
        queried = providers

-----------------------------------------------------------------------------
(* Properties of the checks as advisory gates *)

\* what the three checks answer on given windows and tables at the present time
WouldPassRpm(rw, p) == RpmOk(PruneRpm(rw[p], now), p)

WouldPassTpm(tw, p, est) == TpmOk(PruneTpm(tw[p], now), p, est)

WouldPassDaily(du, bu, p, estCost) == DailyOk(du, bu, today, p, estCost)

\* the entries of a window that are less than 60 seconds old
YoungStamps(w) == SelectSeq(w, LAMBDA ts : now - ts < WindowSeconds)

YoungPairs(w) == SelectSeq(w, LAMBDA e : now - e[1] < WindowSeconds)

\* a step that is neither a record nor the clock: one of the three checks
ChecksReserveNothing ==
    (ncalls' = ncalls /\ now' = now) =>
        /\ daily_usage' = daily_usage
        /\ budget_usage' = budget_usage
        /\ \A p \in Providers :
            /\ rpm_windows'[p] \in {rpm_windows[p], YoungStamps(rpm_windows[p])}
            /\ tpm_windows'[p] \in {tpm_windows[p], YoungPairs(tpm_windows[p])}
            /\ WouldPassRpm(rpm_windows', p) = WouldPassRpm(rpm_windows, p)
            /\ \A est \in EstTokenChoices :
                    WouldPassTpm(tpm_windows', p, est) = WouldPassTpm(tpm_windows, p, est)
            /\ \A c \in EstCostChoices :
                    WouldPassDaily(daily_usage', budget_usage', p, c)
                        = WouldPassDaily(daily_usage, budget_usage, p, c)

\* C25: the three checks reserve nothing: a check leaves the request count,
\* token count and cost of the durable ledger as they were and takes out of
\* the in-memory windows only entries that have left the 60-second window, so
\* the same check repeated with no record in between answers the same.
C25_ChecksReserveNothing == [][ChecksReserveNothing]_vars

\* a check that found requests in the ledger and pruned an expired entry of
\* the window it read, while younger entries stayed
C25_Witness ==
    /\ lastOp.op = "check_tpm"
    /\ lastOp.t = now
    /\ daily_usage[today][lastOp.p].token_count > 0
    /\ tpm_windows[lastOp.p] # <<>>
    /\ \E i \in 1..Len(calls) :
          /\ calls[i].p = lastOp.p
          /\ now - calls[i].t >= WindowSeconds

\* C26: check_tpm_limit(p, estimated_tokens) returns True exactly when the
\* tokens recorded for p in the 60 seconds before the check plus
\* estimated_tokens are at most p's tokens-per-minute limit minus the safety
\* buffer, whatever record calls came before.
C26_TpmCheckIsExact ==
    lastOp.op = "check_tpm" =>
        (lastOp.res <=>
            SumCallTokens(RecentCalls(lastOp.p, lastOp.t)) + lastOp.arg
                <= TpmLimit(lastOp.p) - TpmBuffer)

\* a check admitted with recorded tokens and an estimate that exactly fill
\* the limit less the buffer
C26_Witness ==
    /\ lastOp.op = "check_tpm"
    /\ lastOp.res
    /\ lastOp.count > 0
    /\ lastOp.count + lastOp.arg = TpmLimit(lastOp.p) - TpmBuffer

-----------------------------------------------------------------------------
(* Properties of a provider's query and its retries *)

\* the invocation of p's query made by execute_query (m = "primary") or by
\* _attempt_fallback (m = "fallback") is in progress
QueryRunning(p, m) == pc = "query" /\ qprov = p /\ mode = m

\* a step in which the exception of the running query reaches the router:
\* execute_query's except clause, or the except clause of the fallback loop
ErrorSurfaces ==
    /\ pc = "query"
    /\ \/ pc' = "done" /\ result' = "RuntimeError"
       \/ mode' # mode
       \/ fbIdx' # fbIdx

\* a step in which the running query returns its response
AnswerReturned == pc = "query" /\ result' = "response"

\* C27: a provider query makes at most 3 attempts per invocation: it returns
\* the result of the first attempt that succeeds, its error reaches the
\* router only after the third attempt has failed, and the invocation always
\* comes to an end.
C27_QueryMakesAtMostThreeAttempts ==
    /\ [](pc = "query" => attempt \in 1..3)
    /\ [][ErrorSurfaces => attempt = 3]_vars
    /\ [][AnswerReturned => respFrom' = qprov /\ attempt' = attempt]_vars
    /\ \A p \in Providers, m \in {"primary", "fallback"} :
            QueryRunning(p, m) ~> ~QueryRunning(p, m)

\* the routed provider's query failed three times and the fallback query
\* answered on its third attempt
C27_Witness ==
    /\ pc = "done"
    /\ result = "response"
    /\ mode = "fallback"
    /\ attempt = 3

\* C28: every query attempt that reaches the remote endpoint updates the rate
\* limiter's window and ledger for that provider, whether it succeeds or
\* fails: the step of such an attempt adds an entry to the provider's request
\* window and a request to its ledger row of the day.
C28_EveryIssuedAttemptIsRecorded ==
    [][Len(issueLog') = Len(issueLog) + 1 =>
        /\ Len(rpm_windows'[qprov]) = Len(YoungStamps(rpm_windows[qprov])) + 1
        /\ daily_usage'[today][qprov].request_count
                = daily_usage[today][qprov].request_count + 1]_vars

-----------------------------------------------------------------------------
(* Properties of the providers' can_handle *)

\* self.models[model_type]["tpm_limit"]
GroqVariantTpm(model_type) ==
    IF model_type = "tooling" THEN GroqToolingTpm ELSE GroqReasoningTpm

\* C29: groq's can_handle(prompt, model_type) applies the limits of the
\* requested variant: its own context window and its own tokens-per-minute
\* limit (reasoning 12000, tooling 20000); a request that fits the tooling
\* variant's limit but not the reasoning variant's is admitted for tooling.
C29_CanHandleUsesVariantLimits ==
    lastAdmit.p = "groq" =>
        (lastAdmit.ok <=>
            /\ lastAdmit.prompt_tokens
                    <= GroqMaxContext(lastAdmit.model_type) - ResponseReserve
            /\ lastAdmit.requests < RpmLimit("groq") - RpmBuffer
            /\ lastAdmit.used + lastAdmit.prompt_tokens + ResponseReserve
                    <= GroqVariantTpm(lastAdmit.model_type) - TpmBuffer
            /\ lastAdmit.count < RpdLimit("groq"))

\* the balance check of the call answers from the cache
CacheFresh ==
    /\ lastAdmit.checked # NoValue
    /\ lastAdmit.t - lastAdmit.checked < BalanceCacheSeconds

AdmitCost == VeniceEstimateCost(lastAdmit.prompt_tokens, VeniceEstimateMaxTokens)

\* the cached balance, or the balance just fetched, is below the estimated
\* cost, or the balance query failed
BalanceShort ==
    IF CacheFresh
    THEN lastAdmit.known # NoValue /\ lastAdmit.known < AdmitCost
    ELSE lastAdmit.fetched = FetchFailed \/ lastAdmit.fetched < AdmitCost

\* the RPM check and the check of the local daily ledger both pass
LocalChecksPass ==
    /\ lastAdmit.requests < RpmLimit("venice") - RpmBuffer
    /\ lastAdmit.count < RpdLimit("venice")
    /\ lastAdmit.spent + AdmitCost <= DailyBudget("venice")

\* C30: venice's can_handle returns False whenever the cached or the freshly
\* fetched balance is below the estimated cost or the balance query fails,
\* also when the RPM check and the check of the local daily ledger pass.
C30_ShortBalanceRefuses ==
    (lastAdmit.p = "venice" /\ BalanceShort) => ~lastAdmit.ok

\* a call refused on the cached balance alone, while the prompt fits and the
\* RPM check and the daily-ledger check pass
C30_Witness ==
    /\ lastAdmit.p = "venice"
    /\ LocalChecksPass
    /\ lastAdmit.prompt_tokens <= VeniceContext - ResponseReserve
    /\ BalanceShort
    /\ CacheFresh
    /\ ~lastAdmit.ok

\* C31: the venice provider asks the balance endpoint at most once in any
\* 5 minutes, over any sequence of can_handle calls and whether the query
\* succeeds or fails: two queries that follow each other are at least 300
\* seconds apart.
C31_BalanceQueriedOncePerFiveMinutes ==
    Len(balanceQueries) = 2 =>
        balanceQueries[2] - balanceQueries[1] >= BalanceCacheSeconds

\* C32: the routing rule table is never modified after construction: after
\* any sequence of route_task and execute_query calls, also ones whose provider
\* query failed and went through the fallback, every rule's ordered fallback
\* list equals its initial value (the preferred provider of a rule is never
\* assigned to at all).
C32_RuleTableNeverModified ==
    fallback_rules = [c \in Categories |-> InitialFallbacks(c)]

\* the request-rate window of p has gained the entry of this call
WindowReflects(p) == Len(rpm_windows'[p]) = Len(rpm_windows[p]) + 1

\* today's ledger row of p has gained the request of this call
LedgerReflects(p) ==
    daily_usage'[today][p].request_count = daily_usage[today][p].request_count + 1

\* C33: record_request updates the in-memory window and the durable ledger
\* together: after any record_request call either both the provider's window
\* and today's ledger row reflect the request or neither does, also when the
\* ledger write fails.
C33_WindowAndLedgerMoveTogether ==
    [][ncalls' = ncalls + 1 =>
            (WindowReflects(lastOp'.p) <=> LedgerReflects(lastOp'.p))]_vars

\* a step in which the router calls provider.query: the first attempt of a
\* query begins
QueryEntered == attempt' = 1 /\ attempt # 1

\* C34: within one execute_query call the router invokes each provider's query
\* at most once (the failed provider is never tried again in the fallback), so
\* the providers queried are registered ones, each counted once, and the
\* request ends, with a response or an error, once its queries are over.
C34_EachProviderQueriedAtMostOnce ==
    /\ [][QueryEntered => qprov' \notin queried]_vars
    /\ [](queried \subseteq providers)
    /\ [](Cardinality(queried) <= Cardinality(providers))
    /\ (pc = "query") ~> (pc = "done")

\* a request has ended after the query of the routed provider, which the
\* rule of the task's category names as a fallback, and a fallback query
C34_Witness ==
    /\ pc = "done"
    /\ config # NoConfig
    /\ InSeq(config.provider, InitialFallbacks(config.task_category))
    /\ Cardinality(queried) >= 2

\* a step in which a remote call of the running Venice query is answered 402
VeniceAnswered402 ==
    /\ pc = "query"
    /\ qprov = "venice"
    /\ Len(issueLog') = Len(issueLog) + 1
    /\ \E f \in FetchChoices : Attempt(f, "402")

\* the cached balance is cleared and the last successful fetch is less than
\* 300 seconds old
ClearedAndFresh ==
    /\ current_balance = NoValue
    /\ last_balance_check # NoValue
    /\ now - last_balance_check < BalanceCacheSeconds

\* a step in which route_task asks Venice's can_handle
VeniceAsked == pc = "walk" /\ Len(walkLog') = Len(walkLog) + 1 /\ chain[idx] = "venice"

\* C35: after a Venice query receives HTTP 402 the cached balance is cleared,
\* and from then on can_handle returns False on every call, without asking
\* the balance endpoint, until 300 seconds have passed since the last
\* successful balance fetch.
C35_PaymentRequiredClearsBalance ==
    /\ [][VeniceAnswered402 => current_balance' = NoValue]_vars
    /\ [][(VeniceAsked /\ ClearedAndFresh) =>
            /\ ~walkLog'[Len(walkLog')].ok
            /\ last_balance_check' = last_balance_check]_vars

\* the balance Venice holds after the can_handle call of walk entry e is
\* known and below venice_budget_threshold
KnownLow(e) == e.p = "venice" /\ e.bal # NoValue /\ e.bal < VeniceBudgetThreshold

\* C36: route_task never returns venice as the provider when Venice's cached
\* balance is known and below venice_budget_threshold, even if Venice's
\* can_handle returned True: the walk goes on to the next candidate of the
\* chain.
C36_LowBalanceVeniceIsPassedOver ==
    /\ [](config.provider = "venice" =>
            /\ walkLog # <<>>
            /\ walkLog[Len(walkLog)].p = "venice"
            /\ ~KnownLow(walkLog[Len(walkLog)]))
    /\ [][(VeniceAsked /\ KnownLow(walkLog'[Len(walkLog')])) =>
            /\ pc' = "walk"
            /\ idx' = idx + 1
            /\ config' = NoConfig]_vars

\* Venice's can_handle returned True on a balance below the threshold and the
\* walk stands at the next candidate
C36_Witness ==
    /\ pc = "walk"
    /\ walkLog # <<>>
    /\ walkLog[Len(walkLog)].ok
    /\ KnownLow(walkLog[Len(walkLog)])
    /\ idx = Len(walkLog) + 1
    /\ idx <= Len(chain)

\* neither window of any provider has gained an entry, and the ledger and the
\* list of record_request calls are as they were
NothingRecorded ==
    /\ \A p \in Providers :
          /\ Len(rpm_windows'[p]) <= Len(rpm_windows[p])
          /\ Len(tpm_windows'[p]) <= Len(tpm_windows[p])
    /\ UNCHANGED <<calls, daily_usage, budget_usage>>

\* C37: the query of groq and of venice runs can_handle again at the start of
\* every attempt, and an attempt whose can_handle is False makes no remote
\* call to the model and records nothing in the rate limiter's windows or
\* ledger.
C37_RefusedAttemptCallsAndRecordsNothing ==
    [][\A f \in FetchChoices, o \in CallOutcomes :
        (/\ Attempt(f, o)
         /\ qprov \in {"groq", "venice"}
         /\ ~CanHandleNow(qprov, qmodel, f).ok)
        => /\ issueLog' = issueLog
           /\ NothingRecorded
           /\ result' # "response"]_vars

\* the first attempt of a Venice query was refused by can_handle: the query
\* is at a later attempt and no remote call to Venice has been issued
C37_Witness ==
    /\ pc = "query"
    /\ qprov = "venice"
    /\ attempt >= 2
    /\ \A i \in 1..Len(issueLog) : issueLog[i].p # "venice"

\* C38: check_daily_limits fails closed: whenever reading the ledger raises,
\* it returns False (admission denied) and does not raise to its caller.
C38_DailyCheckFailsClosed ==
    lastDaily.excepted => (~lastDaily.res /\ ~lastDaily.raised)

\* the SELECT of the day's spending raised for a provider with a budget whose
\* request count and spending would have passed
C38_Witness ==
    /\ lastDaily.p = "venice"
    /\ lastDaily.fails = "spent"
    /\ lastDaily.excepted
    /\ DailyOk(daily_usage, budget_usage, today, "venice", lastDaily.arg)
    /\ ~lastDaily.res

\* C39: every routing decision returned by route_task has max_tokens <= 4000,
\* the forced last-resort local decision has max_tokens <= 2000, and every
\* fallback attempt made by _attempt_fallback passes max_tokens <= 2000 and
\* never more than the failed decision's max_tokens.
C39_MaxTokensAreCapped ==
    /\ config # NoConfig => config.max_tokens <= 4000
    /\ (config # NoConfig /\ config.forced) => config.max_tokens <= 2000
    /\ (pc = "query" /\ mode = "fallback") =>
            /\ qmax <= 2000
            /\ qmax <= config.max_tokens

\* a fallback query is running for a decision that allowed 4000 tokens
C39_Witness ==
    /\ pc = "query"
    /\ mode = "fallback"
    /\ config.max_tokens = 4000
    /\ qmax = 2000

=============================================================================
